---- MODULE Spec2Model ----
(***************************************************************************)
(* EdgeCharge: usage anchoring and Merkle verification.                    *)
(*                                                                         *)
(* The state machines of this module:                                      *)
(*   MerkleSpec      - the off-ledger Merkle builder, proof generator and  *)
(*                     verifier, and the ledger's dispute verifier;        *)
(*   Spec            - the EdgeCharge ledger contract;                     *)
(*   SolvencySpec    - the ledger with the owner's token operations;       *)
(*   AnchorSpec      - anchor submission by several relayers;              *)
(*   RelayerSpec     - the relayer's ingestion endpoint and periodic       *)
(*                     batcher in front of the ledger;                     *)
(*   AttributionSpec - the relayer fed by two providers;                   *)
(*   AuditSpec       - the relayer on a ledger its owner pauses;           *)
(*   VerifySpec      - the provider-side verification of a record list;    *)
(*   CodecSpec       - signing, canonical encoding and leaf hashing.       *)
(*                                                                         *)
(* A bytes32 value is modelled by a natural number.  viem's keccak256      *)
(* returns lower-case hex of fixed length, so the string comparisons of    *)
(* the TypeScript code (Array.sort, a.toLowerCase() < b.toLowerCase())     *)
(* order hashes exactly as the numbers they denote.                        *)
(***************************************************************************)
EXTENDS Integers, Sequences, FiniteSets, TLC

(* ------------------------------ bounds -------------------------------- *)

\* leaf hashes are drawn from 1..MaxLeafHash
MaxLeafHash == 3
\* longest leaf list handed to the Merkle functions
MaxLeaves == 4
\* latest second at which the window of a posted record ends
MaxTime == 5

(* ------------------------------ hashing ------------------------------- *)

\* bytes32(0), the all-zero sentinel
ZeroHash == 0

\* Cantor pairing, an injection Nat x Nat -> Nat (halved before multiplying)
CantorPair(a, b) ==
    LET s == a + b
    IN  (IF s % 2 = 0 THEN (s \div 2) * (s + 1) ELSE s * ((s + 1) \div 2)) + b

\* a bijection on Nat that reverses every block of four, so that the hash of
\* a pair is not monotone in the pair
Scramble(n) == (n \div 4) * 4 + (3 - (n % 4))

\* the hashes of usage records (leaves) are the values 1..LeafSpace - 1
LeafSpace == 1 + (IF MaxLeafHash > 4 * MaxTime THEN MaxLeafHash ELSE 4 * MaxTime)

\* keccak256 of the 64-byte concatenation a ++ b: injective, and never a value
\* of the leaf range
keccak256(a, b) == LeafSpace + Scramble(CantorPair(a, b))

hashPairCommutativeOrdered(a, b) == keccak256(a, b)

\* merkle.ts / verification.ts: hash of the smaller value followed by the larger
hashPairCommutative(a, b) ==
    IF a < b THEN keccak256(a, b) ELSE keccak256(b, a)

\* OpenZeppelin Hashes.commutativeKeccak256, used by MerkleProof.verify
commutativeKeccak256(a, b) ==
    IF a < b THEN keccak256(a, b) ELSE keccak256(b, a)

(* --------------------------- sequences -------------------------------- *)

RECURSIVE InsertSorted(_, _)
InsertSorted(x, s) ==
    IF s = <<>> THEN <<x>>
    ELSE IF x <= Head(s) THEN <<x>> \o s
    ELSE <<Head(s)>> \o InsertSorted(x, Tail(s))

RECURSIVE SortAsc(_)
SortAsc(s) == IF s = <<>> THEN <<>> ELSE InsertSorted(Head(s), SortAsc(Tail(s)))

SortLayerNone(layer) == layer

\* Array.prototype.sort() on a layer of hashes
SortLayer(layer) == SortAsc(layer)

\* one pass of `for (i = 0; i < layer.length; i += 2)`: adjacent elements are
\* paired, an odd trailing element with itself (layer[i + 1] ?? layer[i])
RECURSIVE PairLayer(_)
PairLayer(layer) ==
    IF layer = <<>> THEN <<>>
    ELSE IF Len(layer) = 1 THEN <<hashPairCommutative(layer[1], layer[1])>>
    ELSE <<hashPairCommutative(layer[1], layer[2])>> \o PairLayer(Tail(Tail(layer)))

RECURSIVE ReducePairingFirst(_)
ReducePairingFirst(layer) ==
    LET next == SortLayer(PairLayer(layer))
    IN  IF Len(next) <= 1 THEN next[1] ELSE ReducePairingFirst(next)

\* the `while (layer.length > 1)` loop of buildMerkleRoot; every next layer is
\* sorted before it replaces the current one
RECURSIVE ReduceSorted(_)
ReduceSorted(layer) ==
    IF Len(layer) <= 1 THEN layer[1]
    ELSE ReduceSorted(SortLayer(PairLayer(layer)))

\* buildMerkleRoot (relayer lib/merkle.ts, identical in provider
\* utils/verification.ts)
buildMerkleRoot(leaves) ==
    IF Len(leaves) = 0 THEN ZeroHash
    ELSE ReduceSorted(SortLayer(leaves))

\* the sibling recorded for 0-based currentIndex in one layer: the pair
\* (i, i+1) with i even; `right` is layer[i + 1] ?? layer[i]
SiblingAt(layer, currentIndex) ==
    IF currentIndex % 2 = 0
    THEN IF currentIndex + 2 <= Len(layer) THEN layer[currentIndex + 2]
         ELSE layer[currentIndex + 1]
    ELSE layer[currentIndex]

\* the `while (layer.length > 1)` loop of generateMerkleProofForLeaf: the
\* layers are paired in place, never sorted
RECURSIVE ProofLoop(_, _)
ProofLoop(layer, currentIndex) ==
    IF Len(layer) <= 1 THEN <<>>
    ELSE <<SiblingAt(layer, currentIndex)>>
         \o ProofLoop(PairLayer(layer), currentIndex \div 2)

\* generateMerkleProofForLeaf(leaves, leafIndex), leafIndex 0-based
generateMerkleProofForLeaf(leaves, leafIndex) ==
    IF Len(leaves) = 0 \/ leafIndex >= Len(leaves) THEN <<>>
    ELSE ProofLoop(leaves, leafIndex)

\* the fold of verifyMerkleProof: computedHash = hashPair(computedHash, element)
RECURSIVE FoldProof(_, _)
FoldProof(computedHash, proof) ==
    IF proof = <<>> THEN computedHash
    ELSE FoldProof(hashPairCommutative(computedHash, Head(proof)), Tail(proof))

\* off-ledger verifyMerkleProof(leafHash, proof, root)
verifyMerkleProof(leafHash, proof, root) == FoldProof(leafHash, proof) = root

\* OpenZeppelin MerkleProof.processProof
RECURSIVE processProof(_, _)
processProof(computedHash, proof) ==
    IF proof = <<>> THEN computedHash
    ELSE processProof(commutativeKeccak256(computedHash, Head(proof)), Tail(proof))

\* OpenZeppelin MerkleProof.verify(proof, root, leaf)
MerkleProofVerify(proof, root, leaf) == processProof(leaf, proof) = root

(* ------------------------------ ledger -------------------------------- *)

\* most invoices the ledger gets to create
MaxInvoices == 2
\* billing tokens the enterprise holds before any deposit
InitialFunds == 2

ZeroAddress == "zero"
Owner == "owner"
Relayer == "relayer"
Enterprise == "enterprise"
Provider == "provider"
\* address(this) as a holder of the billing token
Contract == "contract"
Token == "token"
\* another ERC20 contract, which the owner may name as the billing token
OtherToken == "other-token"
Tokens == {Token, OtherToken}

Callers == {Owner, Relayer, Enterprise, Provider}
Holders == Callers \cup {Contract}
Amounts == 0..2

AnchorIdOfWindow(provider, windowStart, windowEnd, merkleRoot) ==
    <<provider, windowStart, windowEnd>>

\* keccak256(abi.encodePacked(provider, windowStart, windowEnd, merkleRoot)):
\* the packed encoding of four fixed-width fields is injective, and so is the
\* hash; the id is modelled by the tuple itself
AnchorIdOf(provider, windowStart, windowEnd, merkleRoot) ==
    <<provider, windowStart, windowEnd, merkleRoot>>

\* a storage slot of mapping usageAnchors that was never written
EmptyAnchor ==
    [provider |-> ZeroAddress, windowStart |-> 0, windowEnd |-> 0,
     merkleRoot |-> ZeroHash, totalUsage |-> 0, disputed |-> FALSE, exists |-> FALSE]

\* a storage slot of mapping invoices that was never written
EmptyInvoice ==
    [enterprise |-> ZeroAddress, provider |-> ZeroAddress, invoiceHash |-> 0,
     amount |-> 0, paid |-> FALSE, exists |-> FALSE]

\* usageAnchors[anchorId]
AnchorAt(L, anchorId) ==
    IF anchorId \in DOMAIN L.usageAnchors THEN L.usageAnchors[anchorId] ELSE EmptyAnchor

\* invoices[invoiceId]
InvoiceAt(L, invoiceId) ==
    IF invoiceId \in DOMAIN L.invoices THEN L.invoices[invoiceId] ELSE EmptyInvoice

\* the contract after construction: owner is the deployer, nothing else set
LedgerInit ==
    [authorizedRelayers |-> {},
     paused |-> FALSE,
     entered |-> FALSE,
     billingToken |-> ZeroAddress,
     usageAnchors |-> <<>>,
     invoices |-> <<>>,
     nextInvoiceId |-> 1,
     enterpriseEscrow |-> [a \in Callers |-> 0],
     providerBalances |-> [a \in Callers |-> 0],
     tokenBalanceOf |->
        [t \in Tokens |-> [a \in Holders |-> IF a = Enterprise THEN InitialFunds ELSE 0]]]

\* a call that returns, and a call that reverts (the EVM restores the state)
Ok(L) == [st |-> L, err |-> ""]
Revert(L, reason) == [st |-> L, err |-> reason]

IsOwnerAnyone(sender) == TRUE

\* modifier onlyOwner (Ownable)
IsOwner(sender) == sender = Owner

IsRelayerAnyone(L, sender) == TRUE

\* modifier onlyRelayer
IsRelayer(L, sender) == sender \in L.authorizedRelayers

PausedNever(L) == FALSE

\* Pausable.paused(), read by whenNotPaused and whenPaused
Paused(L) == L.paused

ReentrancyGuardEnteredNever(L) == FALSE

\* ReentrancyGuard: _status == ENTERED
ReentrancyGuardEntered(L) == L.entered

authorizeRelayer(L, sender, relayer) ==
    IF ~IsOwner(sender) THEN Revert(L, "OwnableUnauthorizedAccount")
    ELSE IF relayer = ZeroAddress THEN Revert(L, "EdgeCharge: invalid relayer")
    ELSE Ok([L EXCEPT !.authorizedRelayers = @ \cup {relayer}])

revokeRelayer(L, sender, relayer) ==
    IF ~IsOwner(sender) THEN Revert(L, "OwnableUnauthorizedAccount")
    ELSE Ok([L EXCEPT !.authorizedRelayers = @ \ {relayer}])

setBillingToken(L, sender, token) ==
    IF ~IsOwner(sender) THEN Revert(L, "OwnableUnauthorizedAccount")
    ELSE IF token = ZeroAddress THEN Revert(L, "EdgeCharge: zero token")
    ELSE Ok([L EXCEPT !.billingToken = token])

pause(L, sender) ==
    IF ~IsOwner(sender) THEN Revert(L, "OwnableUnauthorizedAccount")
    ELSE IF Paused(L) THEN Revert(L, "EnforcedPause")
    ELSE Ok([L EXCEPT !.paused = TRUE])

unpause(L, sender) ==
    IF ~IsOwner(sender) THEN Revert(L, "OwnableUnauthorizedAccount")
    ELSE IF ~Paused(L) THEN Revert(L, "ExpectedPause")
    ELSE Ok([L EXCEPT !.paused = FALSE])

\* safeTransferFrom(msg.sender, address(this), amount) moves the tokens when
\* the sender holds them (the enterprise has approved the contract)
depositEscrow(L, sender, amount) ==
    IF Paused(L) THEN Revert(L, "EnforcedPause")
    ELSE IF ReentrancyGuardEntered(L) THEN Revert(L, "ReentrancyGuardReentrantCall")
    ELSE IF L.billingToken = ZeroAddress THEN Revert(L, "EdgeCharge: billing token not set")
    ELSE IF ~(amount > 0) THEN Revert(L, "EdgeCharge: amount must be > 0")
    ELSE IF L.tokenBalanceOf[L.billingToken][sender] < amount
         THEN Revert(L, "ERC20InsufficientBalance")
    ELSE Ok([L EXCEPT !.tokenBalanceOf[L.billingToken][sender] = @ - amount,
                      !.tokenBalanceOf[L.billingToken][Contract] = @ + amount,
                      !.enterpriseEscrow[sender] = @ + amount])

AnchorExistsNever(L, anchorId) == FALSE

\* usageAnchors[anchorId].exists
AnchorExists(L, anchorId) == AnchorAt(L, anchorId).exists

submitUsageAnchor(L, sender, provider, windowStart, windowEnd, merkleRoot, totalUsage) ==
    LET anchorId == AnchorIdOf(provider, windowStart, windowEnd, merkleRoot)
        anchor == [provider |-> provider, windowStart |-> windowStart,
                   windowEnd |-> windowEnd, merkleRoot |-> merkleRoot,
                   totalUsage |-> totalUsage, disputed |-> FALSE, exists |-> TRUE]
    IN  IF ~IsRelayer(L, sender) THEN Revert(L, "EdgeCharge: Not authorized relayer")
        ELSE IF Paused(L) THEN Revert(L, "EnforcedPause")
        ELSE IF provider = ZeroAddress THEN Revert(L, "EdgeCharge: Invalid provider")
        ELSE IF ~(windowStart < windowEnd) THEN Revert(L, "EdgeCharge: Invalid time window")
        ELSE IF ~(totalUsage > 0) THEN Revert(L, "EdgeCharge: Invalid usage amount")
        ELSE IF AnchorExists(L, anchorId) THEN Revert(L, "EdgeCharge: Anchor already exists")
        ELSE Ok([L EXCEPT !.usageAnchors =
                    [id \in DOMAIN L.usageAnchors \cup {anchorId} |->
                        IF id = anchorId THEN anchor ELSE L.usageAnchors[id]]])

NextInvoiceIdSkip(n) == n + 2

\* nextInvoiceId++
NextInvoiceId(n) == n + 1

createInvoice(L, sender, enterprise, provider, amount, invoiceHash) ==
    LET invoiceId == L.nextInvoiceId
        inv == [enterprise |-> enterprise, provider |-> provider,
                invoiceHash |-> invoiceHash, amount |-> amount,
                paid |-> FALSE, exists |-> TRUE]
    IN  IF ~IsRelayer(L, sender) THEN Revert(L, "EdgeCharge: Not authorized relayer")
        ELSE IF Paused(L) THEN Revert(L, "EnforcedPause")
        ELSE IF enterprise = ZeroAddress THEN Revert(L, "EdgeCharge: invalid enterprise")
        ELSE IF provider = ZeroAddress THEN Revert(L, "EdgeCharge: invalid provider")
        ELSE IF ~(amount > 0) THEN Revert(L, "EdgeCharge: amount must be > 0")
        ELSE IF invoiceHash = 0 THEN Revert(L, "EdgeCharge: invalid invoice hash")
        ELSE Ok([L EXCEPT !.nextInvoiceId = NextInvoiceId(@),
                          !.invoices = [id \in DOMAIN L.invoices \cup {invoiceId} |->
                                IF id = invoiceId THEN inv ELSE L.invoices[id]]])

CreditProviderNot(balance, amount) == balance

\* providerBalances[inv.provider] += amount
CreditProvider(balance, amount) == balance + amount

AlreadyPaidNever(inv) == FALSE

\* inv.paid, read by require(!inv.paid, ...)
AlreadyPaid(inv) == inv.paid

EscrowCoversStrictly(escrow, amount) == escrow > amount

\* enterpriseEscrow[inv.enterprise] >= amount
EscrowCovers(escrow, amount) == escrow >= amount

markInvoicePaid(L, sender, invoiceId) ==
    LET inv == InvoiceAt(L, invoiceId)
        amount == inv.amount
    IN  IF ~IsRelayer(L, sender) THEN Revert(L, "EdgeCharge: Not authorized relayer")
        ELSE IF Paused(L) THEN Revert(L, "EnforcedPause")
        ELSE IF ReentrancyGuardEntered(L) THEN Revert(L, "ReentrancyGuardReentrantCall")
        ELSE IF ~inv.exists THEN Revert(L, "EdgeCharge: Invoice does not exist")
        ELSE IF AlreadyPaid(inv) THEN Revert(L, "EdgeCharge: Invoice already paid")
        ELSE IF ~EscrowCovers(L.enterpriseEscrow[inv.enterprise], amount)
             THEN Revert(L, "EdgeCharge: insufficient escrow")
        ELSE Ok([L EXCEPT !.enterpriseEscrow[inv.enterprise] = @ - amount,
                          !.providerBalances[inv.provider] = CreditProvider(@, amount),
                          !.invoices[invoiceId].paid = TRUE])

MarkDisputedAndVoid(anchor) == [anchor EXCEPT !.disputed = TRUE, !.totalUsage = 0]

\* usageAnchors[anchorId].disputed = true
MarkDisputed(anchor) == [anchor EXCEPT !.disputed = TRUE]

ReasonGivenAlways(reasonLength) == TRUE

\* bytes(reason).length > 0
ReasonGiven(reasonLength) == reasonLength > 0

openDisputeAgain(L, sender, anchorId, reasonLength) ==
    IF Paused(L) THEN Revert(L, "EnforcedPause")
    ELSE IF ~AnchorAt(L, anchorId).exists THEN Revert(L, "EdgeCharge: Anchor does not exist")
    ELSE IF ~ReasonGiven(reasonLength) THEN Revert(L, "EdgeCharge: reason required")
    ELSE Ok([L EXCEPT !.usageAnchors[anchorId] = MarkDisputed(@)])

openDispute(L, sender, anchorId, reasonLength) ==
    IF Paused(L) THEN Revert(L, "EnforcedPause")
    ELSE IF ~AnchorAt(L, anchorId).exists THEN Revert(L, "EdgeCharge: Anchor does not exist")
    ELSE IF AnchorAt(L, anchorId).disputed THEN Revert(L, "EdgeCharge: Anchor already disputed")
    ELSE IF ~ReasonGiven(reasonLength) THEN Revert(L, "EdgeCharge: reason required")
    ELSE Ok([L EXCEPT !.usageAnchors[anchorId] = MarkDisputed(@)])

resolveDispute(L, sender, anchorId, resolvedInFavorOfProvider) ==
    IF ~IsOwner(sender) THEN Revert(L, "OwnableUnauthorizedAccount")
    ELSE IF Paused(L) THEN Revert(L, "EnforcedPause")
    ELSE IF ~AnchorAt(L, anchorId).exists THEN Revert(L, "EdgeCharge: Anchor does not exist")
    ELSE IF ~AnchorAt(L, anchorId).disputed THEN Revert(L, "EdgeCharge: Anchor not disputed")
    ELSE Ok([L EXCEPT !.usageAnchors[anchorId].disputed = FALSE])

\* EdgeCharge.verifyMerkleProof (view): reverts on a missing anchor, else the
\* boolean of MerkleProof.verify(proof, root, leaf)
ledgerVerifyMerkleProof(L, anchorId, leaf, proof) ==
    IF ~AnchorAt(L, anchorId).exists
    THEN [valid |-> FALSE, err |-> "EdgeCharge: Anchor does not exist"]
    ELSE [valid |-> MerkleProofVerify(proof, AnchorAt(L, anchorId).merkleRoot, leaf),
          err |-> ""]

\* the views: getUsageAnchor and getInvoice revert on a missing entry
getUsageAnchor(L, anchorId) ==
    IF ~AnchorAt(L, anchorId).exists
    THEN [val |-> EmptyAnchor, err |-> "EdgeCharge: Anchor does not exist"]
    ELSE [val |-> AnchorAt(L, anchorId), err |-> ""]

getInvoice(L, invoiceId) ==
    IF ~InvoiceAt(L, invoiceId).exists
    THEN [val |-> EmptyInvoice, err |-> "EdgeCharge: Invoice does not exist"]
    ELSE [val |-> InvoiceAt(L, invoiceId), err |-> ""]

getEnterpriseEscrow(L, enterprise) == L.enterpriseEscrow[enterprise]

getProviderBalance(L, provider) == L.providerBalances[provider]

(* --------------------- withdrawal and re-entrancy --------------------- *)

\* what the transfer target does when it gets control during safeTransfer
NoReentry == [op |-> "none", arg |-> 0]
ReentrantCalls ==
    {NoReentry, [op |-> "withdrawProvider", arg |-> 0]}
    \cup {[op |-> "markInvoicePaid", arg |-> id] : id \in 1..MaxInvoices}
    \cup {[op |-> "depositEscrow", arg |-> a] : a \in Amounts \ {0}}

BalanceAfterWithdrawKept(bal) == bal

\* providerBalances[msg.sender] = 0
BalanceAfterWithdraw(bal) == 0

\* withdrawProvider; `reent` is the call the transfer target makes back into
\* the ledger while billingToken.safeTransfer runs (the guard is still ENTERED
\* and the balance already zero).  A re-entrant call that reverts is caught by
\* the target; the outer call then completes.
RECURSIVE withdrawProvider(_, _, _)
withdrawProvider(L, sender, reent) ==
    LET bal == L.providerBalances[sender]
        L1 == [L EXCEPT !.entered = TRUE,
                        !.providerBalances[sender] = BalanceAfterWithdraw(bal)]
        L2 == [L1 EXCEPT !.tokenBalanceOf[L.billingToken][Contract] = @ - bal,
                         !.tokenBalanceOf[L.billingToken][sender] = @ + bal]
        inner == CASE reent.op = "withdrawProvider" -> withdrawProvider(L2, sender, NoReentry)
                   [] reent.op = "markInvoicePaid" ->
                        markInvoicePaid(L2, sender, reent.arg) @@ [paid |-> 0]
                   [] reent.op = "depositEscrow" ->
                        depositEscrow(L2, sender, reent.arg) @@ [paid |-> 0]
                   [] OTHER -> Ok(L2) @@ [paid |-> 0]
        failed(reason) ==
            Revert(L, reason) @@ [inner |-> "none", paid |-> 0, redeposited |-> 0]
    IN  IF Paused(L) THEN failed("EnforcedPause")
        ELSE IF ReentrancyGuardEntered(L) THEN failed("ReentrancyGuardReentrantCall")
        ELSE IF ~(bal > 0) THEN failed("EdgeCharge: no balance to withdraw")
        ELSE IF L1.tokenBalanceOf[L.billingToken][Contract] < bal
             THEN failed("ERC20InsufficientBalance")
        ELSE [st |-> [inner.st EXCEPT !.entered = FALSE],
              err |-> "",
              inner |-> IF reent.op = "none" THEN "none"
                        ELSE IF inner.err = "" THEN "succeeded" ELSE "reverted",
              paid |-> bal + inner.paid,
              redeposited |-> IF reent.op = "depositEscrow" /\ inner.err = ""
                              THEN reent.arg ELSE 0]

\* emergencyWithdrawToken: IERC20(token).safeTransfer(to, amount) out of the
\* contract's own holdings of any token, the billing token included; it is
\* not stopped by a pause
emergencyWithdrawToken(L, sender, token, amount, to) ==
    IF ~IsOwner(sender) THEN Revert(L, "OwnableUnauthorizedAccount")
    ELSE IF ReentrancyGuardEntered(L) THEN Revert(L, "ReentrancyGuardReentrantCall")
    ELSE IF token \notin Tokens THEN Revert(L, "AddressEmptyCode")
    ELSE IF to = ZeroAddress THEN Revert(L, "ERC20InvalidReceiver")
    ELSE IF L.tokenBalanceOf[token][Contract] < amount
         THEN Revert(L, "ERC20InsufficientBalance")
    ELSE Ok([L EXCEPT !.tokenBalanceOf[token][Contract] = @ - amount,
                      !.tokenBalanceOf[token][to] = @ + amount])

(* --------------------------- ledger machine --------------------------- *)

VARIABLES
    ledger,       \* the contract's storage and the billing token's balances
    lastCall,     \* the last external call: [op, err], err = "" when it returned
    lastReentry,  \* how the re-entrant call of the last withdrawal ended
    withdrawn,    \* per address, the tokens paid out by withdrawProvider so far
    deposited     \* per address, the tokens taken in by depositEscrow so far

ledgerVars == <<ledger, lastCall, lastReentry, withdrawn, deposited>>

Called(op, R) ==
    /\ ledger' = R.st
    /\ lastCall' = [op |-> op, err |-> R.err]

\* the inputs the ledger's callers choose from; an access-checked operation is
\* called by an address that passes the check and by one that does not
OwnerOrNot == {Owner, Relayer}
RelayerOrNot == {Relayer, Provider}
Depositors == {Enterprise}
Withdrawers == {Provider}
Disputants == {Enterprise, Relayer}
RelayerArgs == {ZeroAddress, Relayer}
TokenArgs == {ZeroAddress, Token}
ProviderArgs == {ZeroAddress, Provider}
EnterpriseArgs == {ZeroAddress, Enterprise}
WindowArgs == {<<1, 2>>, <<2, 2>>}
RootArgs == {1}
UsageArgs == {0, 5}
InvoiceHashArgs == {0, 1}
ReasonLengths == {0, 1}
\* submitUsageAnchor arguments: all valid, or exactly one of them invalid
SubmitAnchorArgs ==
    {a \in ProviderArgs \X WindowArgs \X RootArgs \X UsageArgs :
        Cardinality({i \in {1} : a[1] = ZeroAddress}
                    \cup {i \in {2} : ~(a[2][1] < a[2][2])}
                    \cup {i \in {4} : a[4] = 0}) <= 1}
\* createInvoice arguments: all valid, or exactly one of them zero
CreateInvoiceArgs ==
    {a \in EnterpriseArgs \X ProviderArgs \X Amounts \X InvoiceHashArgs :
        Cardinality({i \in 1..2 : a[i] = ZeroAddress} \cup {i \in 3..4 : a[i] = 0}) <= 1}
AnchorIdArgs ==
    {AnchorIdOf(Provider, w[1], w[2], r) : w \in WindowArgs, r \in RootArgs}

AuthorizeRelayer(sender, relayer) ==
    /\ Called("authorizeRelayer", authorizeRelayer(ledger, sender, relayer))
    /\ UNCHANGED <<lastReentry, withdrawn, deposited>>

RevokeRelayer(sender, relayer) ==
    /\ Called("revokeRelayer", revokeRelayer(ledger, sender, relayer))
    /\ UNCHANGED <<lastReentry, withdrawn, deposited>>

SetBillingToken(sender, token) ==
    /\ Called("setBillingToken", setBillingToken(ledger, sender, token))
    /\ UNCHANGED <<lastReentry, withdrawn, deposited>>

Pause(sender) ==
    /\ Called("pause", pause(ledger, sender))
    /\ UNCHANGED <<lastReentry, withdrawn, deposited>>

Unpause(sender) ==
    /\ Called("unpause", unpause(ledger, sender))
    /\ UNCHANGED <<lastReentry, withdrawn, deposited>>

DepositEscrow(sender, amount) ==
    LET R == depositEscrow(ledger, sender, amount)
    IN  /\ Called("depositEscrow", R)
        /\ deposited' = [deposited EXCEPT ![sender] = @ + (IF R.err = "" THEN amount ELSE 0)]
        /\ UNCHANGED <<lastReentry, withdrawn>>

SubmitUsageAnchor(sender, provider, windowStart, windowEnd, merkleRoot, totalUsage) ==
    /\ Called("submitUsageAnchor",
              submitUsageAnchor(ledger, sender, provider, windowStart, windowEnd,
                                merkleRoot, totalUsage))
    /\ UNCHANGED <<lastReentry, withdrawn, deposited>>

\* the model stops creating invoices at MaxInvoices
CreateInvoice(sender, enterprise, provider, amount, invoiceHash) ==
    /\ ledger.nextInvoiceId <= MaxInvoices
    /\ Called("createInvoice",
              createInvoice(ledger, sender, enterprise, provider, amount, invoiceHash))
    /\ UNCHANGED <<lastReentry, withdrawn, deposited>>

MarkInvoicePaid(sender, invoiceId) ==
    /\ Called("markInvoicePaid", markInvoicePaid(ledger, sender, invoiceId))
    /\ UNCHANGED <<lastReentry, withdrawn, deposited>>

WithdrawProvider(sender, reent) ==
    LET R == withdrawProvider(ledger, sender, reent)
    IN  /\ Called("withdrawProvider", R)
        /\ lastReentry' = R.inner
        /\ withdrawn' = [withdrawn EXCEPT ![sender] = @ + R.paid]
        /\ deposited' = [deposited EXCEPT ![sender] = @ + R.redeposited]

EmergencyWithdrawToken(sender, token, amount, to) ==
    /\ Called("emergencyWithdrawToken",
              emergencyWithdrawToken(ledger, sender, token, amount, to))
    /\ UNCHANGED <<lastReentry, withdrawn, deposited>>

OpenDispute(sender, anchorId, reasonLength) ==
    /\ Called("openDispute", openDispute(ledger, sender, anchorId, reasonLength))
    /\ UNCHANGED <<lastReentry, withdrawn, deposited>>

ResolveDispute(sender, anchorId, resolvedInFavorOfProvider) ==
    /\ Called("resolveDispute",
              resolveDispute(ledger, sender, anchorId, resolvedInFavorOfProvider))
    /\ UNCHANGED <<lastReentry, withdrawn, deposited>>

(* --------------------------- Merkle machine --------------------------- *)

VARIABLES
    mstep,         \* "input", "built", "shuffled", "proved", "anchored", "verified"
    leaves,        \* the leaf hashes in arrival order
    root,          \* buildMerkleRoot(leaves), once built
    shuffled,      \* a permutation of leaves
    shuffledRoot,  \* buildMerkleRoot(shuffled)
    leafIndex,     \* the 0-based index a proof was generated for
    proof,         \* generateMerkleProofForLeaf(leaves, leafIndex)
    query          \* the last dispute query and both verifiers' answers

merkleVars == <<mstep, leaves, root, shuffled, shuffledRoot, leafIndex, proof, query>>

VARIABLES
    now,               \* Math.floor(Date.now() / 1000)
    lastTick,          \* the time of the batcher's last tick
    pendingLeaves,     \* state.ts pendingLeaves
    submittedAnchors,  \* state.ts submittedAnchors
    accepted,          \* every leaf addLeaf took, in order; a leaf's uid is its index
    batches,           \* every drained batch with its payload and how its attempt stands
    lastStatus         \* the HTTP status of the last POST /leaves

relayerVars ==
    <<now, lastTick, pendingLeaves, submittedAnchors, accepted, batches, lastStatus>>

VARIABLES
    vstep,         \* "idle", "input", "verified", "batched"
    records,       \* the usage records handed to the verification and to the relayer
    verification,  \* the result of verifyUsageRecordsAndBuildMerkle(records)
    batched        \* the anchor payload the batcher computes from the same records

verifyVars == <<vstep, records, verification, batched>>

VARIABLES
    cstep,           \* "idle", "input", "signed", "altered", "reordered", "checked"
    signerKey,       \* the private key of the SignatureService
    unsignedRecord,  \* the object handed to signUsageRecord
    usageRecord,     \* the signed record as it reaches a verifier and the relayer
    codecOut         \* what the verifier and the two leaf-hash computations returned

codecVars == <<cstep, signerKey, unsignedRecord, usageRecord, codecOut>>

vars == <<ledgerVars, merkleVars, relayerVars, verifyVars, codecVars>>

LeafHashes == 1..MaxLeafHash

RECURSIVE SeqsUpTo(_, _)
SeqsUpTo(S, n) ==
    IF n = 0 THEN {<<>>}
    ELSE LET shorter == SeqsUpTo(S, n - 1)
         IN  shorter \cup {Append(s, x) : s \in {t \in shorter : Len(t) = n - 1}, x \in S}

NoQuery == [leaf |-> 0, proof |-> <<>>, onLedger |-> FALSE, offLedger |-> FALSE]

\* the ledger once the owner has authorized the relayer
LedgerWithRelayer == authorizeRelayer(LedgerInit, Owner, Relayer).st

MerkleIdle ==
    /\ mstep = "idle" /\ leaves = <<>> /\ root = ZeroHash /\ shuffled = <<>>
    /\ shuffledRoot = ZeroHash /\ leafIndex = 0 /\ proof = <<>> /\ query = NoQuery

LedgerStart(L) ==
    /\ ledger = L
    /\ lastCall = [op |-> "constructor", err |-> ""]
    /\ lastReentry = "none"
    /\ withdrawn = [a \in Callers |-> 0]
    /\ deposited = [a \in Callers |-> 0]

RelayerIdle ==
    /\ now = 0 /\ lastTick = 0 /\ pendingLeaves = <<>> /\ submittedAnchors = <<>>
    /\ accepted = <<>> /\ batches = <<>> /\ lastStatus = 0

\* MerkleVerificationResult before any verification ran
NoVerification ==
    [isValid |-> FALSE, merkleRoot |-> ZeroHash, totalUsage |-> 0, leafCount |-> 0,
     error |-> "not run"]

\* no anchor payload: the batcher returns when it drained nothing
NoBatch ==
    [provider |-> ZeroAddress, windowStart |-> 0, windowEnd |-> 0,
     merkleRoot |-> ZeroHash, totalUsage |-> 0]

VerifyIdle ==
    /\ vstep = "idle" /\ records = <<>> /\ verification = NoVerification
    /\ batched = NoBatch

\* the outputs of the signature and encoding functions before any of them ran
NoCodecOut ==
    [isValid |-> FALSE, providerLeaf |-> <<>>, relayerLeaf |-> <<>>, status |-> 0]

CodecIdle ==
    /\ cstep = "idle" /\ signerKey = "none" /\ unsignedRecord = <<>>
    /\ usageRecord = <<>> /\ codecOut = NoCodecOut

MerkleInit ==
    /\ LedgerStart(LedgerWithRelayer)
    /\ RelayerIdle
    /\ VerifyIdle
    /\ CodecIdle
    /\ mstep = "input"
    /\ leaves \in SeqsUpTo(LeafHashes, MaxLeaves)
    /\ root = ZeroHash /\ shuffled = <<>> /\ shuffledRoot = ZeroHash
    /\ leafIndex = 0 /\ proof = <<>> /\ query = NoQuery

\* a batch's window and provider, fixed in this machine
MerkleWindow == <<1, 2>>
MerkleAnchorId == AnchorIdOf(Provider, MerkleWindow[1], MerkleWindow[2], root)

MBuildRoot ==
    /\ mstep = "input"
    /\ root' = buildMerkleRoot(leaves)
    /\ mstep' = "built"
    /\ UNCHANGED <<leaves, shuffled, shuffledRoot, leafIndex, proof, query, ledgerVars, relayerVars, verifyVars, codecVars>>

\* buildMerkleRoot([...leafHashes] in another order)
MShuffle ==
    /\ mstep = "built"
    /\ \E p \in Permutations(1..Len(leaves)) :
          /\ shuffled' = [i \in 1..Len(leaves) |-> leaves[p[i]]]
          /\ shuffledRoot' = buildMerkleRoot([i \in 1..Len(leaves) |-> leaves[p[i]]])
    /\ mstep' = "shuffled"
    /\ UNCHANGED <<leaves, root, leafIndex, proof, query, ledgerVars, relayerVars, verifyVars, codecVars>>

MGenerateProof ==
    /\ mstep = "built"
    /\ \E i \in 0..MaxLeaves :
          /\ leafIndex' = i
          /\ proof' = generateMerkleProofForLeaf(leaves, i)
    /\ mstep' = "proved"
    /\ UNCHANGED <<leaves, root, shuffled, shuffledRoot, query, ledgerVars, relayerVars, verifyVars, codecVars>>

\* the relayer anchors the batch: totalUsage is one unit per leaf
MAnchor ==
    /\ mstep = "proved"
    /\ SubmitUsageAnchor(Relayer, Provider, MerkleWindow[1], MerkleWindow[2], root,
                         Len(leaves))
    /\ mstep' = IF lastCall'.err = "" THEN "anchored" ELSE "rejected"
    /\ UNCHANGED <<leaves, root, shuffled, shuffledRoot, leafIndex, proof, query, relayerVars, verifyVars, codecVars>>

\* the nodes of the layer above the leaves of the anchored tree
InteriorNodes ==
    IF Len(leaves) < 2 THEN {}
    ELSE LET layer == PairLayer(SortLayer(leaves))
         IN  {layer[i] : i \in 1..Len(layer)}

\* the (leaf, sibling list) pairs a disputant may present: any leaf value with
\* the generated proof, with no sibling or with one sibling; the root itself;
\* and a node of the layer above the leaves, alone or with another such node
DisputeQueries ==
    (LeafHashes \X ({proof, <<>>} \cup {<<x>> : x \in LeafHashes}))
    \cup {<<root, <<>>>>}
    \cup (InteriorNodes \X ({<<>>} \cup {<<x>> : x \in InteriorNodes}))

\* a dispute: the same (leaf, proof) is put to the ledger's verifier and to the
\* off-ledger verifier, which reads the root from the stored anchor
MVerify ==
    /\ mstep \in {"anchored", "verified"}
    /\ \E q \in DisputeQueries :
          query' = [leaf |-> q[1], proof |-> q[2],
                    onLedger |->
                        ledgerVerifyMerkleProof(ledger, MerkleAnchorId, q[1], q[2]).valid,
                    offLedger |->
                        verifyMerkleProof(q[1], q[2],
                                          AnchorAt(ledger, MerkleAnchorId).merkleRoot)]
    /\ mstep' = "verified"
    /\ UNCHANGED <<leaves, root, shuffled, shuffledRoot, leafIndex, proof, ledgerVars, relayerVars, verifyVars, codecVars>>

MerkleNext == MBuildRoot \/ MShuffle \/ MGenerateProof \/ MAnchor \/ MVerify

MerkleSpec == MerkleInit /\ [][MerkleNext]_vars

(* ---------------------------- ledger Spec ----------------------------- *)

Init == LedgerStart(LedgerInit) /\ MerkleIdle /\ RelayerIdle /\ VerifyIdle /\ CodecIdle

AuthorizeRelayerCall ==
    \E sender \in OwnerOrNot, relayer \in RelayerArgs :
        AuthorizeRelayer(sender, relayer) /\ UNCHANGED <<merkleVars, relayerVars, verifyVars, codecVars>>

RevokeRelayerCall ==
    \E sender \in OwnerOrNot : RevokeRelayer(sender, Relayer) /\ UNCHANGED <<merkleVars, relayerVars, verifyVars, codecVars>>

SetBillingTokenCall ==
    \E sender \in OwnerOrNot, token \in TokenArgs :
        SetBillingToken(sender, token) /\ UNCHANGED <<merkleVars, relayerVars, verifyVars, codecVars>>

PauseCall == \E sender \in OwnerOrNot : Pause(sender) /\ UNCHANGED <<merkleVars, relayerVars, verifyVars, codecVars>>

UnpauseCall == \E sender \in OwnerOrNot : Unpause(sender) /\ UNCHANGED <<merkleVars, relayerVars, verifyVars, codecVars>>

DepositEscrowCall ==
    \E sender \in Depositors, amount \in Amounts :
        DepositEscrow(sender, amount) /\ UNCHANGED <<merkleVars, relayerVars, verifyVars, codecVars>>

SubmitUsageAnchorCall ==
    \E sender \in RelayerOrNot, a \in SubmitAnchorArgs :
        SubmitUsageAnchor(sender, a[1], a[2][1], a[2][2], a[3], a[4])
        /\ UNCHANGED <<merkleVars, relayerVars, verifyVars, codecVars>>

CreateInvoiceCall ==
    \E sender \in RelayerOrNot, a \in CreateInvoiceArgs :
        CreateInvoice(sender, a[1], a[2], a[3], a[4]) /\ UNCHANGED <<merkleVars, relayerVars, verifyVars, codecVars>>

MarkInvoicePaidCall ==
    \E sender \in RelayerOrNot, invoiceId \in 1..MaxInvoices :
        MarkInvoicePaid(sender, invoiceId) /\ UNCHANGED <<merkleVars, relayerVars, verifyVars, codecVars>>

WithdrawProviderCall ==
    \E sender \in Withdrawers, reent \in ReentrantCalls :
        WithdrawProvider(sender, reent) /\ UNCHANGED <<merkleVars, relayerVars, verifyVars, codecVars>>

OpenDisputeCall ==
    \E sender \in Disputants, anchorId \in AnchorIdArgs, reasonLength \in ReasonLengths :
        OpenDispute(sender, anchorId, reasonLength) /\ UNCHANGED <<merkleVars, relayerVars, verifyVars, codecVars>>

ResolveDisputeCall ==
    \E sender \in OwnerOrNot, anchorId \in AnchorIdArgs, flag \in BOOLEAN :
        ResolveDispute(sender, anchorId, flag) /\ UNCHANGED <<merkleVars, relayerVars, verifyVars, codecVars>>

Next ==
    \/ AuthorizeRelayerCall \/ RevokeRelayerCall \/ SetBillingTokenCall
    \/ PauseCall \/ UnpauseCall \/ DepositEscrowCall \/ SubmitUsageAnchorCall
    \/ CreateInvoiceCall \/ MarkInvoicePaidCall \/ WithdrawProviderCall
    \/ OpenDisputeCall \/ ResolveDisputeCall

Spec == Init /\ [][Next]_vars

(* ----------------------------- solvency ------------------------------- *)

\* the ledger with its owner's token operations: the owner names either token
\* as the billing token and withdraws either token from the contract
SAuthorize ==
    AuthorizeRelayer(Owner, Relayer) /\ UNCHANGED <<merkleVars, relayerVars, verifyVars, codecVars>>

SSetBillingToken ==
    \E token \in Tokens :
        SetBillingToken(Owner, token) /\ UNCHANGED <<merkleVars, relayerVars, verifyVars, codecVars>>

SPause == Pause(Owner) /\ UNCHANGED <<merkleVars, relayerVars, verifyVars, codecVars>>

SUnpause == Unpause(Owner) /\ UNCHANGED <<merkleVars, relayerVars, verifyVars, codecVars>>

SDepositEscrow ==
    \E amount \in Amounts \ {0} :
        DepositEscrow(Enterprise, amount) /\ UNCHANGED <<merkleVars, relayerVars, verifyVars, codecVars>>

SCreateInvoice ==
    \E amount \in Amounts \ {0} :
        CreateInvoice(Relayer, Enterprise, Provider, amount, 1)
        /\ UNCHANGED <<merkleVars, relayerVars, verifyVars, codecVars>>

SMarkInvoicePaid ==
    \E invoiceId \in 1..MaxInvoices :
        MarkInvoicePaid(Relayer, invoiceId) /\ UNCHANGED <<merkleVars, relayerVars, verifyVars, codecVars>>

SWithdrawProvider ==
    WithdrawProvider(Provider, NoReentry) /\ UNCHANGED <<merkleVars, relayerVars, verifyVars, codecVars>>

SEmergencyWithdrawToken ==
    \E token \in Tokens, amount \in Amounts \ {0} :
        EmergencyWithdrawToken(Owner, token, amount, Owner)
        /\ UNCHANGED <<merkleVars, relayerVars, verifyVars, codecVars>>

SolvencyNext ==
    \/ SAuthorize \/ SSetBillingToken \/ SPause \/ SUnpause \/ SDepositEscrow
    \/ SCreateInvoice \/ SMarkInvoicePaid \/ SWithdrawProvider \/ SEmergencyWithdrawToken

SolvencySpec == Init /\ [][SolvencyNext]_vars

(* -------------------------- relayer machine --------------------------- *)

\* Math.floor(BATCH_INTERVAL_MS / 1000), scaled down
IntervalSeconds == 2
\* most leaves POST /leaves accepts in one run
MaxIngested == 2

Nonces == {1, 2}
Units == {1, 2}

\* the request bodies posted to /leaves: a record's window is one second long;
\* windowEnd = 0 fails LeafSchema (windowEnd must be positive)
LeafBodies ==
    {[provider |-> Provider, nonce |-> n, windowStart |-> IF e = 0 THEN 0 ELSE e - 1,
      windowEnd |-> e, unitsConsumed |-> u] : n \in Nonces, e \in 0..MaxTime, u \in Units}

\* LeafSchema.safeParse(req.body).success
LeafSchemaOk(body) ==
    /\ body.windowStart >= 0
    /\ body.windowEnd > 0
    /\ body.unitsConsumed >= 0

\* hashLeafCanonicalJson of the seven fields of a leaf: keccak256 of its JSON
\* text, an injective numbering of the record contents
hashLeafCanonicalJson(l) ==
    1 + (l.nonce - 1) + 2 * ((l.unitsConsumed - 1) + 2 * (l.windowEnd - 1))

\* POST /leaves: 400 on a body that fails the schema, else addLeaf and 202
PostLeaf(body) ==
    /\ Len(accepted) < MaxIngested
    /\ IF LeafSchemaOk(body)
       THEN /\ pendingLeaves' = Append(pendingLeaves, body @@ [uid |-> Len(accepted) + 1])
            /\ accepted' = Append(accepted, body)
            /\ lastStatus' = 202
       ELSE /\ lastStatus' = 400
            /\ UNCHANGED <<pendingLeaves, accepted>>
    /\ UNCHANGED <<now, lastTick, submittedAnchors, batches, ledgerVars, merkleVars, verifyVars, codecVars>>

PostLeafCall == \E body \in LeafBodies : PostLeaf(body)

\* the clock advances one second; setInterval fires the batcher when exactly
\* IntervalSeconds have passed since its last tick
AdvanceTime ==
    /\ now < lastTick + IntervalSeconds
    /\ now' = now + 1
    /\ UNCHANGED <<lastTick, pendingLeaves, submittedAnchors, accepted, batches,
                   lastStatus, ledgerVars, merkleVars, verifyVars, codecVars>>

\* pendingLeaves.filter(l => l.windowEnd <= now && l.windowEnd > cutoff)
InWindow(l, t, windowSeconds) ==
    l.windowEnd <= t /\ l.windowEnd > t - windowSeconds

RemoveBatchedNot(pending, batch) == pending

\* the loop `for (const b of batch) pendingLeaves.splice(indexOf(b), 1)`;
\* indexOf finds the very object, which the uid stands for
RemoveBatched(pending, batch) ==
    SelectSeq(pending, LAMBDA l : \A i \in 1..Len(batch) : batch[i].uid # l.uid)

\* drainLeavesForWindow(now, windowSeconds): the batch and what stays pending
drainLeavesForWindow(pending, t, windowSeconds) ==
    LET batch == SelectSeq(pending, LAMBDA l : InWindow(l, t, windowSeconds))
    IN  [batch |-> batch, pending |-> RemoveBatched(pending, batch)]

RECURSIVE SumUnits(_)
SumUnits(ls) == IF ls = <<>> THEN 0 ELSE Head(ls).unitsConsumed + SumUnits(Tail(ls))

MinOf(S) == CHOOSE x \in S : \A y \in S : x <= y
MaxOf(S) == CHOOSE x \in S : \A y \in S : x >= y

\* the payload the batcher computes for a drained batch (batcher.ts 15-29)
AnchorPayload(batch) ==
    [provider |-> batch[1].provider,
     windowStart |-> MinOf({batch[i].windowStart : i \in 1..Len(batch)}),
     windowEnd |-> MaxOf({batch[i].windowEnd : i \in 1..Len(batch)}),
     merkleRoot |-> buildMerkleRoot([i \in 1..Len(batch) |-> hashLeafCanonicalJson(batch[i])]),
     totalUsage |-> SumUnits(batch)]

\* one run of the setInterval callback up to its `await submitAnchor(...)`.
\* No window of a posted record ends after MaxTime, so once a tick at or after
\* MaxTime has run every later tick finds the same: the clock is then kept
\* modulo the interval, and the batcher ticks for ever in finitely many states.
Tick ==
    /\ now = lastTick + IntervalSeconds
    /\ IF lastTick >= MaxTime
       THEN now' = lastTick /\ lastTick' = lastTick
       ELSE now' = now /\ lastTick' = now
    /\ LET d == drainLeavesForWindow(pendingLeaves, now, IntervalSeconds)
       IN  /\ pendingLeaves' = d.pending
           /\ batches' =
                IF Len(d.batch) = 0 THEN batches
                ELSE Append(batches,
                            [uids |-> {d.batch[i].uid : i \in 1..Len(d.batch)},
                             payload |-> AnchorPayload(d.batch),
                             stage |-> "sent", applied |-> FALSE])
    /\ UNCHANGED <<submittedAnchors, accepted, lastStatus, ledgerVars, merkleVars, verifyVars, codecVars>>

\* writeContract throws before the transaction reaches the ledger (transport
\* error, timeout); the catch block logs it
SubmitThrows(b) ==
    /\ batches[b].stage = "sent"
    /\ batches' = [batches EXCEPT ![b].stage = "failed"]
    /\ UNCHANGED <<now, lastTick, pendingLeaves, submittedAnchors, accepted, lastStatus,
                   ledgerVars, merkleVars, verifyVars, codecVars>>

\* writeContract reaches the ledger, which runs submitUsageAnchor; a revert
\* makes writeContract throw
SubmitDelivered(b) ==
    /\ batches[b].stage = "sent"
    /\ LET pl == batches[b].payload
       IN  SubmitUsageAnchor(Relayer, pl.provider, pl.windowStart, pl.windowEnd,
                             pl.merkleRoot, pl.totalUsage)
    /\ batches' = [batches EXCEPT
                      ![b].stage = IF lastCall'.err = "" THEN "mined" ELSE "failed",
                      ![b].applied = (lastCall'.err = "")]
    /\ UNCHANGED <<now, lastTick, pendingLeaves, submittedAnchors, accepted, lastStatus,
                   merkleVars, verifyVars, codecVars>>

\* waitForTransactionReceipt returns; the batcher records the anchor
ReceiptReturned(b) ==
    /\ batches[b].stage = "mined"
    /\ submittedAnchors' = Append(submittedAnchors, batches[b].payload)
    /\ batches' = [batches EXCEPT ![b].stage = "recorded"]
    /\ UNCHANGED <<now, lastTick, pendingLeaves, accepted, lastStatus, ledgerVars, merkleVars, verifyVars, codecVars>>

\* waitForTransactionReceipt throws (timeout, transport error)
ReceiptThrows(b) ==
    /\ batches[b].stage = "mined"
    /\ batches' = [batches EXCEPT ![b].stage = "failed"]
    /\ UNCHANGED <<now, lastTick, pendingLeaves, submittedAnchors, accepted, lastStatus,
                   ledgerVars, merkleVars, verifyVars, codecVars>>

SubmitThrowsStep == \E b \in 1..Len(batches) : SubmitThrows(b)
SubmitDeliveredStep == \E b \in 1..Len(batches) : SubmitDelivered(b)
ReceiptReturnedStep == \E b \in 1..Len(batches) : ReceiptReturned(b)
ReceiptThrowsStep == \E b \in 1..Len(batches) : ReceiptThrows(b)

RelayerInit ==
    LedgerStart(LedgerWithRelayer) /\ MerkleIdle /\ RelayerIdle /\ VerifyIdle /\ CodecIdle

RelayerNext ==
    \/ PostLeafCall \/ AdvanceTime \/ Tick
    \/ SubmitThrowsStep \/ SubmitDeliveredStep \/ ReceiptReturnedStep \/ ReceiptThrowsStep

RelayerSpec == RelayerInit /\ [][RelayerNext]_vars

\* the clock runs, the timer fires, and each awaited call settles one way or
\* the other; whether it settles well is not up to the relayer
RelayerFairSpec ==
    /\ RelayerSpec
    /\ WF_vars(AdvanceTime)
    /\ WF_vars(Tick)
    /\ WF_vars(SubmitThrowsStep \/ SubmitDeliveredStep)
    /\ WF_vars(ReceiptReturnedStep \/ ReceiptThrowsStep)

(* ------------------------- several providers ------------------------- *)

\* a second provider that posts usage records to the same relayer
OtherProvider == "other-provider"

\* the request bodies of two providers; LeafSchema takes any address as provider
AttributedLeafBodies ==
    {[b EXCEPT !.provider = p] : b \in {x \in LeafBodies : x.nonce = 1},
                                 p \in {Provider, OtherProvider}}

PostAttributedLeaf == \E body \in AttributedLeafBodies : PostLeaf(body)

AttributionNext ==
    \/ PostAttributedLeaf \/ AdvanceTime \/ Tick
    \/ SubmitDeliveredStep \/ ReceiptReturnedStep

AttributionSpec == RelayerInit /\ [][AttributionNext]_vars

(* ---------------------- relayer on a shared ledger -------------------- *)

\* writeContract up to the broadcast: the gas estimate runs submitUsageAnchor
\* on the ledger as it stands and throws if that reverts; otherwise the signed
\* transaction is sent and its hash returned
SubmitBroadcast(b) ==
    /\ batches[b].stage = "sent"
    /\ LET pl == batches[b].payload
           estimate == submitUsageAnchor(ledger, Relayer, pl.provider, pl.windowStart,
                                         pl.windowEnd, pl.merkleRoot, pl.totalUsage)
       IN  batches' = [batches EXCEPT
                          ![b].stage = IF estimate.err = "" THEN "broadcast" ELSE "failed"]
    /\ UNCHANGED <<now, lastTick, pendingLeaves, submittedAnchors, accepted, lastStatus,
                   ledgerVars, merkleVars, verifyVars, codecVars>>

\* the transaction is included in a block: submitUsageAnchor runs on the
\* ledger as it is then, and the receipt carries status success or reverted
TransactionMined(b) ==
    /\ batches[b].stage = "broadcast"
    /\ LET pl == batches[b].payload
       IN  SubmitUsageAnchor(Relayer, pl.provider, pl.windowStart, pl.windowEnd,
                             pl.merkleRoot, pl.totalUsage)
    /\ batches' = [batches EXCEPT ![b].stage = "mined", ![b].applied = (lastCall'.err = "")]
    /\ UNCHANGED <<now, lastTick, pendingLeaves, submittedAnchors, accepted, lastStatus,
                   merkleVars, verifyVars, codecVars>>

SubmitBroadcastStep == \E b \in 1..Len(batches) : SubmitBroadcast(b)
TransactionMinedStep == \E b \in 1..Len(batches) : TransactionMined(b)

\* the owner of the ledger pauses and unpauses it while the relayer runs
OwnerPauses == Pause(Owner) /\ UNCHANGED <<merkleVars, relayerVars, verifyVars, codecVars>>
OwnerUnpauses == Unpause(Owner) /\ UNCHANGED <<merkleVars, relayerVars, verifyVars, codecVars>>

PostFirstNonceLeaf == \E body \in {x \in LeafBodies : x.nonce = 1} : PostLeaf(body)

AuditNext ==
    \/ PostFirstNonceLeaf \/ AdvanceTime \/ Tick
    \/ SubmitThrowsStep \/ SubmitBroadcastStep \/ TransactionMinedStep
    \/ ReceiptReturnedStep \/ ReceiptThrowsStep
    \/ OwnerPauses \/ OwnerUnpauses

AuditSpec == RelayerInit /\ [][AuditNext]_vars

(* --------------------------- anchor identity -------------------------- *)

\* the addresses the owner authorizes as relayers and that submit anchors
AnchorSenders == {Relayer, Enterprise}
\* valid (provider, windowStart, windowEnd, merkleRoot): one base tuple and
\* four that differ from it in exactly one field
AnchorInputs ==
    {<<Provider, 1, 2, 1>>, <<Enterprise, 1, 2, 1>>, <<Provider, 0, 2, 1>>,
     <<Provider, 1, 3, 1>>, <<Provider, 1, 2, 2>>}
AnchorUsages == {1, 2}

AAuthorize ==
    \E relayer \in AnchorSenders :
        AuthorizeRelayer(Owner, relayer) /\ UNCHANGED <<merkleVars, relayerVars, verifyVars, codecVars>>

ARevoke ==
    \E relayer \in AnchorSenders :
        RevokeRelayer(Owner, relayer) /\ UNCHANGED <<merkleVars, relayerVars, verifyVars, codecVars>>

ASubmit ==
    \E sender \in AnchorSenders, a \in AnchorInputs, totalUsage \in AnchorUsages :
        SubmitUsageAnchor(sender, a[1], a[2], a[3], a[4], totalUsage)
        /\ UNCHANGED <<merkleVars, relayerVars, verifyVars, codecVars>>

\* a second passes between two calls
AMineBlock ==
    /\ now < MaxTime
    /\ now' = now + 1
    /\ UNCHANGED <<lastTick, pendingLeaves, submittedAnchors, accepted, batches,
                   lastStatus, ledgerVars, merkleVars, verifyVars, codecVars>>

AnchorNext == AAuthorize \/ ARevoke \/ ASubmit \/ AMineBlock

AnchorSpec == Init /\ [][AnchorNext]_vars

(* ---------------------- signature verification ----------------------- *)

\* longest list of records handed to verifyUsageRecordsAndBuildMerkle
MaxRecords == 2

\* usage records of one window with their providerSig, which either recovers
\* to record.provider or does not
SignedRecords ==
    {body @@ [sigValid |-> v] : body \in {b \in LeafBodies : b.windowEnd = 1}, v \in BOOLEAN}

\* verifyUsageRecordSignature(record).isValid: verifyMessage's answer, false
\* as well when it throws
verifyUsageRecordSignature(record) == record.sigValid

\* keccak256(toBytes(createCanonicalJson(record))): the same seven fields in
\* the same order as the relayer's hashLeafCanonicalJson
createCanonicalJsonHash(record) == hashLeafCanonicalJson(record)

\* verifyUsageRecordsAndBuildMerkle(records)
verifyUsageRecordsAndBuildMerkle(rs) ==
    LET invalidSignatures == {i \in 1..Len(rs) : ~verifyUsageRecordSignature(rs[i])}
    IN  IF Len(rs) = 0
        THEN [isValid |-> FALSE, merkleRoot |-> ZeroHash, totalUsage |-> 0,
              leafCount |-> 0, error |-> "No records provided"]
        ELSE IF Cardinality(invalidSignatures) > 0
        THEN [isValid |-> FALSE, merkleRoot |-> ZeroHash, totalUsage |-> 0,
              leafCount |-> Len(rs), error |-> "Invalid signatures found"]
        ELSE [isValid |-> TRUE,
              merkleRoot |-> buildMerkleRoot([i \in 1..Len(rs) |-> createCanonicalJsonHash(rs[i])]),
              totalUsage |-> SumUnits(rs),
              leafCount |-> Len(rs), error |-> ""]

VerifyInit ==
    /\ LedgerStart(LedgerWithRelayer) /\ MerkleIdle /\ RelayerIdle /\ CodecIdle
    /\ vstep = "input"
    /\ records \in SeqsUpTo(SignedRecords, MaxRecords)
    /\ verification = NoVerification
    /\ batched = NoBatch

\* the provider-side verification of the list
VVerify ==
    /\ vstep = "input"
    /\ verification' = verifyUsageRecordsAndBuildMerkle(records)
    /\ vstep' = "verified"
    /\ UNCHANGED <<records, batched, ledgerVars, merkleVars, relayerVars, codecVars>>

\* the same records go through POST /leaves (LeafSchema only asks providerSig
\* to be a hex string) and are drained by the tick that closes their window
VBatch ==
    /\ vstep = "verified"
    /\ LET pending == [i \in 1..Len(records) |-> records[i] @@ [uid |-> i]]
           d == drainLeavesForWindow(pending, IntervalSeconds, IntervalSeconds)
       IN  batched' = IF Len(d.batch) = 0 THEN NoBatch ELSE AnchorPayload(d.batch)
    /\ vstep' = "batched"
    /\ UNCHANGED <<records, verification, ledgerVars, merkleVars, relayerVars, codecVars>>

VerifyNext == VVerify \/ VBatch

VerifySpec == VerifyInit /\ [][VerifyNext]_vars

(* ------------------------ signing and encoding ------------------------ *)

\* A JavaScript object is the sequence of its own properties <<key, value>> in
\* insertion order; a property that is not there reads as undefined.
HasProperty(obj, key) == \E i \in 1..Len(obj) : obj[i][1] = key
Property(obj, key) == obj[CHOOSE i \in 1..Len(obj) : obj[i][1] = key][2]

\* [...obj entries] in the opposite insertion order
ReverseProperties(obj) == [i \in 1..Len(obj) |-> obj[Len(obj) + 1 - i]]

\* the properties of the object literal of createCanonicalJson, in its order
CanonicalFields ==
    <<"provider", "nodeId", "windowStart", "windowEnd", "unitsConsumed", "rateId", "nonce">>

NumericFields == {"windowStart", "windowEnd", "unitsConsumed"}

\* the largest value of the fixed-width unsigned integers the ledger takes
\* (uint256), scaled down
MaxUint == 2

\* JSON.stringify(obj): the properties in insertion order, a number printed as
\* a number and a string quoted
JsonStringify(obj) ==
    [i \in 1..Len(obj) |->
        <<obj[i][1], IF obj[i][1] \in NumericFields THEN "number" ELSE "string", obj[i][2]>>]

CanonicalObjectWithoutNonce(record) ==
    LET present == SelectSeq(SubSeq(CanonicalFields, 1, 6), LAMBDA k : HasProperty(record, k))
    IN  [i \in 1..Len(present) |-> <<present[i], Property(record, present[i])>>]

\* const canonicalRecord = {provider: record.provider, ..., nonce: record.nonce}
\* as JSON.stringify sees it: a property whose value is undefined is left out
CanonicalObject(record) ==
    LET present == SelectSeq(CanonicalFields, LAMBDA k : HasProperty(record, k))
    IN  [i \in 1..Len(present) |-> <<present[i], Property(record, present[i])>>]

\* createCanonicalJson(record); it has no throw statement and JSON.stringify
\* does not throw on strings and numbers
createCanonicalJson(record) ==
    [text |-> JsonStringify(CanonicalObject(record)), threw |-> FALSE]

\* keccak256(toBytes(json)), free of collisions
keccak256OfText(json) == <<"keccak256", json>>

\* the leaf hash of the provider-side utilities
providerLeafHash(record) == keccak256OfText(createCanonicalJson(record).text)

\* hashLeafCanonicalJson(obj) of the relayer, for any object
hashLeafJson(obj) == keccak256OfText(JsonStringify(obj))

batcherLeafHashOfLeaf(l) == hashLeafJson(l)

\* the batcher's leaf hash: hashLeafCanonicalJson of the literal it builds
\* from the seven properties of a drained leaf
batcherLeafHash(l) ==
    hashLeafJson([i \in 1..Len(CanonicalFields) |->
                    <<CanonicalFields[i], Property(l, CanonicalFields[i])>>])

SigningKeys == {"key-a", "key-b"}
\* privateKeyToAccount(privateKey).address
AddressOf(key) == IF key = "key-a" THEN "0xa" ELSE "0xb"
Addresses == {AddressOf(k) : k \in SigningKeys}

\* hashMessage: the EIP-191 digest of the message bytes
hashMessage(text) == <<"eip191", text>>

\* account.signMessage: an ECDSA signature fixes its signer and the digest
signMessage(key, text) == [signer |-> key, digest |-> hashMessage(text)]

\* recoverMessageAddress: the signer's address for the digest that was signed,
\* and an address nobody holds for any other digest
recoverMessageAddress(text, signature) ==
    IF signature.digest = hashMessage(text) THEN AddressOf(signature.signer) ELSE "0x?"

\* viem verifyMessage
verifyMessage(address, text, signature) ==
    recoverMessageAddress(text, signature) = address

\* SignatureService.signUsageRecord under the service's key
signUsageRecord(key, record) == signMessage(key, createCanonicalJson(record).text)

\* verifyUsageRecordSignature(record).isValid with the signature read from the
\* record; verifyMessage throws on an undefined address or signature, which
\* the catch block turns into isValid: false
verifySignedUsageRecord(record) ==
    /\ HasProperty(record, "provider")
    /\ HasProperty(record, "providerSig")
    /\ verifyMessage(Property(record, "provider"), createCanonicalJson(record).text,
                     Property(record, "providerSig"))

\* the values a property of a usage record takes
ValuesOf(key) ==
    CASE key = "provider" -> Addresses
      [] key = "nodeId" -> {"node-1", "node-2"}
      [] key = "rateId" -> {"rate-1", "rate-2"}
      [] key = "nonce" -> {"0x01", "0x02"}
      [] OTHER -> 1..MaxUint

\* UnsignedUsageRecord objects written in the order of the schema
UnsignedRecords ==
    {<<<<"provider", p>>, <<"nodeId", n>>, <<"windowStart", s>>, <<"windowEnd", e>>,
       <<"unitsConsumed", u>>, <<"rateId", r>>, <<"nonce", c>>>> :
        p \in ValuesOf("provider"), n \in ValuesOf("nodeId"), s \in ValuesOf("windowStart"),
        e \in ValuesOf("windowEnd"), u \in ValuesOf("unitsConsumed"),
        r \in ValuesOf("rateId"), c \in ValuesOf("nonce")}

WithProperty(obj, key, value) ==
    [i \in 1..Len(obj) |-> IF obj[i][1] = key THEN <<key, value>> ELSE obj[i]]

WithoutProperty(obj, key) == SelectSeq(obj, LAMBDA p : p[1] # key)

BaseRecord ==
    <<<<"provider", "0xa">>, <<"nodeId", "node-1">>, <<"windowStart", 1>>,
      <<"windowEnd", 2>>, <<"unitsConsumed", 1>>, <<"rateId", "rate-1">>,
      <<"nonce", "0x01">>>>

\* objects that are no usage record: one required property is missing, or one
\* number does not fit the fixed-width integer
MalformedRecords ==
    {WithoutProperty(BaseRecord, CanonicalFields[i]) : i \in 1..Len(CanonicalFields)}
    \cup {WithProperty(BaseRecord, k, MaxUint + 1) : k \in NumericFields}

\* every required property is there and every number fits
WellFormed(record) ==
    /\ \A i \in 1..Len(CanonicalFields) : HasProperty(record, CanonicalFields[i])
    /\ \A k \in NumericFields : Property(record, k) \in 0..MaxUint

\* LeafSchema.safeParse(body): success when the eight properties pass their
\* checks (z.number().int() has no upper limit); data has the schema's order
LeafSchemaParse(body) ==
    LET schema == Append(CanonicalFields, "providerSig")
        ok == /\ \A i \in 1..Len(schema) : HasProperty(body, schema[i])
              /\ Property(body, "windowStart") >= 0
              /\ Property(body, "windowEnd") > 0
              /\ Property(body, "unitsConsumed") >= 0
    IN  [success |-> ok,
         data |-> IF ok THEN [i \in 1..Len(schema) |-> <<schema[i], Property(body, schema[i])>>]
                  ELSE <<>>]

CodecInit ==
    /\ LedgerStart(LedgerWithRelayer) /\ MerkleIdle /\ RelayerIdle /\ VerifyIdle
    /\ cstep = "input"
    /\ signerKey \in SigningKeys
    /\ unsignedRecord \in UnsignedRecords
                          \cup {ReverseProperties(r) : r \in UnsignedRecords}
                          \cup MalformedRecords
    /\ usageRecord = <<>>
    /\ codecOut = NoCodecOut

\* the provider signs the record and attaches the signature
CSign ==
    /\ cstep = "input"
    /\ usageRecord' = Append(unsignedRecord,
                             <<"providerSig", signUsageRecord(signerKey, unsignedRecord)>>)
    /\ cstep' = "signed"
    /\ UNCHANGED <<signerKey, unsignedRecord, codecOut, ledgerVars, merkleVars, relayerVars,
                   verifyVars>>

\* one signed property is changed after signing
CAlter ==
    /\ cstep = "signed"
    /\ \E i \in 1..Len(CanonicalFields) :
          LET k == CanonicalFields[i]
          IN  /\ HasProperty(usageRecord, k)
              /\ \E v \in ValuesOf(k) \ {Property(usageRecord, k)} :
                    usageRecord' = WithProperty(usageRecord, k, v)
    /\ cstep' = "altered"
    /\ UNCHANGED <<signerKey, unsignedRecord, codecOut, ledgerVars, merkleVars, relayerVars,
                   verifyVars>>

\* the same record is written with its properties in another order
CReorder ==
    /\ cstep = "signed"
    /\ usageRecord' = ReverseProperties(usageRecord)
    /\ cstep' = "reordered"
    /\ UNCHANGED <<signerKey, unsignedRecord, codecOut, ledgerVars, merkleVars, relayerVars,
                   verifyVars>>

\* the provider signs the same record once more
CResign ==
    /\ cstep = "signed"
    /\ usageRecord' = WithProperty(usageRecord, "providerSig",
                                   signUsageRecord(signerKey, unsignedRecord))
    /\ cstep' = "resigned"
    /\ UNCHANGED <<signerKey, unsignedRecord, codecOut, ledgerVars, merkleVars, relayerVars,
                   verifyVars>>

\* the record is verified, hashed by the provider-side utilities, and posted
\* to the relayer, whose batcher hashes the parsed leaf
CCheck ==
    /\ cstep \in {"signed", "altered", "reordered", "resigned"}
    /\ LET parse == LeafSchemaParse(usageRecord)
       IN  codecOut' = [isValid |-> verifySignedUsageRecord(usageRecord),
                        providerLeaf |-> providerLeafHash(usageRecord),
                        relayerLeaf |-> IF parse.success THEN batcherLeafHash(parse.data)
                                        ELSE <<>>,
                        status |-> IF parse.success THEN 202 ELSE 400]
    /\ cstep' = "checked"
    /\ UNCHANGED <<signerKey, unsignedRecord, usageRecord, ledgerVars, merkleVars,
                   relayerVars, verifyVars>>

CodecNext == CSign \/ CAlter \/ CReorder \/ CResign \/ CCheck

CodecSpec == CodecInit /\ [][CodecNext]_vars

(* ------------------------- Merkle properties -------------------------- *)

\* C1: for every non-empty list of leaf hashes, in any arrival order and of
\* any length, and every index i, the proof generated for (L, i) verifies
\* against buildMerkleRoot(L).
C1_GeneratedProofVerifies ==
    (mstep = "proved" /\ leafIndex < Len(leaves))
        => verifyMerkleProof(leaves[leafIndex + 1], proof, root)

\* C2: the ledger's dispute verifier and the off-ledger verifier return the
\* same boolean for every stored anchor root, leaf and sibling list.
C2_SameFoldRule ==
    mstep = "verified" => query.onLedger = query.offLedger

C2_Witness ==
    /\ mstep = "verified"
    /\ query.proof # <<>>
    /\ query.onLedger
    /\ query.leaf > query.proof[1]

\* C6: buildMerkleRoot returns the same root for every ordering of the same
\* multiset of leaf hashes.
C6_RootIsOrderIndependent ==
    mstep = "shuffled" => shuffledRoot = root

C6_Witness ==
    /\ mstep = "shuffled"
    /\ Len(leaves) >= 3
    /\ shuffled # leaves
    /\ shuffled # SortAsc(leaves)
    /\ leaves # SortAsc(leaves)

\* C11: a verifier (on the ledger or off it) answers true only for a hash
\* that is one of the leaves the anchored root was built from, whatever the
\* sibling list; and the ledger's verifier fails with 'Anchor does not exist'
\* for an anchor id that was never stored.
C11_OnlyLeavesVerify ==
    /\ (mstep = "verified" /\ (query.onLedger \/ query.offLedger))
          => \E i \in 1..Len(leaves) : leaves[i] = query.leaf
    /\ ~AnchorAt(ledger, MerkleAnchorId).exists
          => ledgerVerifyMerkleProof(ledger, MerkleAnchorId, 1, <<>>).err
                = "EdgeCharge: Anchor does not exist"

\* C27: the root built from a one-element list is that element, and the root
\* built from the empty list is the all-zero value.
C27_SingleLeafAndEmptyRoot ==
    mstep # "input"
        => /\ Len(leaves) = 1 => (root = leaves[1] /\ buildMerkleRoot(<<leaves[1]>>) = leaves[1])
           /\ Len(leaves) = 0 => (root = 0 /\ buildMerkleRoot(<<>>) = 0)
           /\ \A h \in LeafHashes : buildMerkleRoot(<<h>>) = h

\* the root of a one-leaf list was built and anchored
C27_Witness ==
    /\ mstep = "anchored"
    /\ Len(leaves) = 1
    /\ root = leaves[1]
    /\ AnchorAt(ledger, MerkleAnchorId).merkleRoot = leaves[1]

(* ---------------------- verification properties ---------------------- *)

ValidRecords == SelectSeq(records, verifyUsageRecordSignature)
ValidRoot ==
    buildMerkleRoot([i \in 1..Len(ValidRecords) |-> createCanonicalJsonHash(ValidRecords[i])])

\* C12: of a list of records some of which carry an invalid signature, the
\* root and totalUsage are computed over exactly the records with a valid
\* signature, and the batch as a whole is not failed.
C12_InvalidSignaturesAreExcluded ==
    Len(ValidRecords) > 0 =>
        /\ vstep \in {"verified", "batched"}
              => /\ verification.isValid
                 /\ verification.merkleRoot = ValidRoot
                 /\ verification.totalUsage = SumUnits(ValidRecords)
        /\ vstep = "batched"
              => /\ batched.merkleRoot = ValidRoot
                 /\ batched.totalUsage = SumUnits(ValidRecords)

(* ------------------------- ledger properties -------------------------- *)

RECURSIVE SumOver(_, _)
SumOver(f, S) ==
    IF S = {} THEN 0
    ELSE LET x == CHOOSE y \in S : TRUE IN f[x] + SumOver(f, S \ {x})

\* the amounts of the paid invoices whose provider (enterprise) is a
PaidTo(L, a) ==
    SumOver([id \in DOMAIN L.invoices |->
                IF L.invoices[id].paid /\ L.invoices[id].provider = a
                THEN L.invoices[id].amount ELSE 0], DOMAIN L.invoices)
PaidFrom(L, a) ==
    SumOver([id \in DOMAIN L.invoices |->
                IF L.invoices[id].paid /\ L.invoices[id].enterprise = a
                THEN L.invoices[id].amount ELSE 0], DOMAIN L.invoices)

\* a submitUsageAnchor call by an authorized relayer that repeats the
\* arguments of the call that created the anchor now stored under its id
RepeatsSubmission(sender, provider, w, merkleRoot, totalUsage) ==
    /\ IsRelayer(ledger, sender)
    /\ AnchorAt(ledger, AnchorIdOf(provider, w[1], w[2], merkleRoot)).exists
    /\ AnchorAt(ledger, AnchorIdOf(provider, w[1], w[2], merkleRoot)).totalUsage = totalUsage
    /\ SubmitUsageAnchor(sender, provider, w[1], w[2], merkleRoot, totalUsage)

\* a first submitUsageAnchor call by an authorized relayer with valid arguments
FirstSubmission(sender, provider, w, merkleRoot, totalUsage) ==
    /\ IsRelayer(ledger, sender)
    /\ ~ledger.paused
    /\ provider # ZeroAddress /\ w[1] < w[2] /\ totalUsage > 0
    /\ ~AnchorAt(ledger, AnchorIdOf(provider, w[1], w[2], merkleRoot)).exists
    /\ SubmitUsageAnchor(sender, provider, w[1], w[2], merkleRoot, totalUsage)

\* C3 as stated: whatever happens between the two calls, the second of two
\* identical submitUsageAnchor calls by an authorized relayer is rejected with
\* 'Anchor already exists' and leaves the ledger as the first call left it.
C3_SecondCallFailsAsDuplicate ==
    [][lastCall'.op = "submitUsageAnchor" =>
       \A sender \in RelayerOrNot, a \in SubmitAnchorArgs :
            RepeatsSubmission(sender, a[1], a[2], a[3], a[4])
                => /\ lastCall'.err = "EdgeCharge: Anchor already exists"
                   /\ ledger' = ledger]_vars

\* C3 amended: the first call creates the anchor; the second is rejected and
\* changes nothing, with 'Anchor already exists' unless the ledger was paused
\* in between, and then with the pause error.
C3_SubmitIsIdempotent ==
    [][lastCall'.op = "submitUsageAnchor" =>
       \A sender \in RelayerOrNot, a \in SubmitAnchorArgs :
            /\ FirstSubmission(sender, a[1], a[2], a[3], a[4])
                => /\ lastCall'.err = ""
                   /\ AnchorAt(ledger', AnchorIdOf(a[1], a[2][1], a[2][2], a[3])) =
                        [provider |-> a[1], windowStart |-> a[2][1], windowEnd |-> a[2][2],
                         merkleRoot |-> a[3], totalUsage |-> a[4],
                         disputed |-> FALSE, exists |-> TRUE]
            /\ RepeatsSubmission(sender, a[1], a[2], a[3], a[4])
                => /\ lastCall'.err = IF ledger.paused THEN "EnforcedPause"
                                      ELSE "EdgeCharge: Anchor already exists"
                   /\ ledger' = ledger]_vars

C3_Witness ==
    /\ lastCall = [op |-> "submitUsageAnchor", err |-> "EdgeCharge: Anchor already exists"]
    /\ \E id \in AnchorIdArgs : AnchorAt(ledger, id).exists /\ AnchorAt(ledger, id).disputed

\* C4: a successful markInvoicePaid debits the enterprise's escrow and credits
\* the provider's balance by exactly the invoice amount and sets paid, in one
\* step; a failed one changes nothing; and in every state the balances account
\* for exactly the paid invoices.
C4_SettlementIsAtomic ==
    /\ [][lastCall'.op = "markInvoicePaid" =>
          \A sender \in RelayerOrNot, invoiceId \in 1..MaxInvoices :
            MarkInvoicePaid(sender, invoiceId)
                => LET inv == InvoiceAt(ledger, invoiceId)
                   IN  IF lastCall'.err = ""
                       THEN /\ inv.exists /\ ~inv.paid
                            /\ ledger.enterpriseEscrow[inv.enterprise] >= inv.amount
                            /\ ledger'.enterpriseEscrow[inv.enterprise] =
                                 ledger.enterpriseEscrow[inv.enterprise] - inv.amount
                            /\ ledger'.providerBalances[inv.provider] =
                                 ledger.providerBalances[inv.provider] + inv.amount
                            /\ InvoiceAt(ledger', invoiceId) = [inv EXCEPT !.paid = TRUE]
                       ELSE ledger' = ledger]_vars
    /\ [](\A a \in Callers :
            /\ ledger.providerBalances[a] + withdrawn[a] = PaidTo(ledger, a)
            /\ ledger.enterpriseEscrow[a] + PaidFrom(ledger, a) = deposited[a])

C4_Witness ==
    /\ lastCall = [op |-> "markInvoicePaid", err |-> ""]
    /\ ledger.providerBalances[Provider] = 2
    /\ ledger.enterpriseEscrow[Enterprise] = 0
    /\ \E id \in DOMAIN ledger.invoices : ~ledger.invoices[id].paid

\* C5: a successful withdrawProvider leaves the caller's balance at zero and
\* pays out exactly the balance it read; a call the transfer target makes back
\* into the ledger during the transfer fails; and no provider is ever paid more
\* than markInvoicePaid credited to it.
C5_NoDoublePayout ==
    /\ [][lastCall'.op = "withdrawProvider" =>
          \A sender \in Withdrawers, reent \in ReentrantCalls :
            (WithdrawProvider(sender, reent) /\ lastCall'.err = "")
                => /\ ledger'.providerBalances[sender] = 0
                   /\ withdrawn'[sender] = withdrawn[sender] + ledger.providerBalances[sender]
                   /\ lastReentry' \in {"none", "reverted"}]_vars
    /\ [](\A a \in Callers : withdrawn[a] <= PaidTo(ledger, a))

C5_Witness ==
    /\ lastCall = [op |-> "withdrawProvider", err |-> ""]
    /\ lastReentry = "reverted"
    /\ withdrawn[Provider] = 2

MutatingOps ==
    {"depositEscrow", "submitUsageAnchor", "createInvoice", "markInvoicePaid",
     "withdrawProvider"}

\* what the read-only operations return, for every argument of the model
ViewsOf(L) ==
    [getUsageAnchor |-> [id \in AnchorIdArgs |-> getUsageAnchor(L, id)],
     getInvoice |-> [id \in 1..MaxInvoices |-> getInvoice(L, id)],
     getEnterpriseEscrow |-> [a \in Callers |-> getEnterpriseEscrow(L, a)],
     getProviderBalance |-> [a \in Callers |-> getProviderBalance(L, a)],
     verifyMerkleProof |->
        [id \in AnchorIdArgs |-> ledgerVerifyMerkleProof(L, id, 1, <<>>)]]

\* C13: while the ledger is paused each of the five mutating operations fails
\* and leaves the ledger as it was; the views answer as they would without
\* the pause, and pause and unpause change nothing but the switch, so that
\* after unpause the operations meet the state they would have met.
C13_PauseStopsMutations ==
    /\ [][(ledger.paused /\ lastCall'.op \in MutatingOps)
            => (lastCall'.err # "" /\ ledger' = ledger)]_vars
    /\ [][lastCall'.op \in {"pause", "unpause"}
            => /\ ViewsOf(ledger') = ViewsOf(ledger)
               /\ lastCall'.err = "" => ledger' = [ledger EXCEPT !.paused = ~@]]_vars
    /\ [](ViewsOf(ledger) = ViewsOf([ledger EXCEPT !.paused = FALSE]))

\* a settlement that would have gone through is refused because of the pause
C13_Witness ==
    /\ ledger.paused
    /\ lastCall = [op |-> "markInvoicePaid", err |-> "EnforcedPause"]
    /\ \E id \in DOMAIN ledger.invoices :
          /\ ~ledger.invoices[id].paid
          /\ ledger.enterpriseEscrow[ledger.invoices[id].enterprise]
                >= ledger.invoices[id].amount

\* C14: in every reachable state, paused or not, a relayer-only operation
\* called by an address outside the allow-list, and an owner-only operation
\* called by a non-owner, revert with the authorization error and the state
\* unchanged, whatever the arguments; the allow-list changes only by the owner's authorizeRelayer,
\* which adds the address, and revokeRelayer, which removes it.
C14_AuthorizationFirst ==
    /\ [](\A sender \in RelayerOrNot \ ledger.authorizedRelayers :
            /\ \A a \in SubmitAnchorArgs :
                  submitUsageAnchor(ledger, sender, a[1], a[2][1], a[2][2], a[3], a[4])
                      = Revert(ledger, "EdgeCharge: Not authorized relayer")
            /\ \A a \in CreateInvoiceArgs :
                  createInvoice(ledger, sender, a[1], a[2], a[3], a[4])
                      = Revert(ledger, "EdgeCharge: Not authorized relayer")
            /\ \A invoiceId \in 1..MaxInvoices :
                  markInvoicePaid(ledger, sender, invoiceId)
                      = Revert(ledger, "EdgeCharge: Not authorized relayer"))
    /\ [](\A sender \in OwnerOrNot \ {Owner} :
            /\ \A relayer \in RelayerArgs :
                  authorizeRelayer(ledger, sender, relayer)
                      = Revert(ledger, "OwnableUnauthorizedAccount")
            /\ revokeRelayer(ledger, sender, Relayer)
                  = Revert(ledger, "OwnableUnauthorizedAccount")
            /\ pause(ledger, sender) = Revert(ledger, "OwnableUnauthorizedAccount")
            /\ unpause(ledger, sender) = Revert(ledger, "OwnableUnauthorizedAccount")
            /\ \A anchorId \in AnchorIdArgs, flag \in BOOLEAN :
                  resolveDispute(ledger, sender, anchorId, flag)
                      = Revert(ledger, "OwnableUnauthorizedAccount"))
    /\ [][/\ ledger'.authorizedRelayers # ledger.authorizedRelayers
               => (lastCall'.op \in {"authorizeRelayer", "revokeRelayer"}
                   /\ lastCall'.err = "")
          /\ lastCall'.op = "authorizeRelayer" =>
                \A relayer \in RelayerArgs \ {ZeroAddress} :
                    AuthorizeRelayer(Owner, relayer)
                        => relayer \in ledger'.authorizedRelayers
          /\ lastCall'.op = "revokeRelayer" =>
                (RevokeRelayer(Owner, Relayer)
                    => Relayer \notin ledger'.authorizedRelayers)]_vars

\* a revoked relayer is turned away with the authorization error on a paused
\* ledger
C14_Witness ==
    /\ ledger.paused
    /\ Relayer \notin ledger.authorizedRelayers
    /\ lastCall = [op |-> "markInvoicePaid", err |-> "EdgeCharge: Not authorized relayer"]
    /\ \E id \in DOMAIN ledger.invoices : TRUE

\* C15 as stated: openDispute succeeds exactly when the anchor exists, is not
\* disputed and the reason is non-empty.
C15_OpenSucceedsExactlyWhen ==
    [][lastCall'.op = "openDispute" =>
       \A sender \in Disputants, anchorId \in AnchorIdArgs, reasonLength \in ReasonLengths :
            OpenDispute(sender, anchorId, reasonLength)
                => ((lastCall'.err = "")
                        <=> (/\ AnchorAt(ledger, anchorId).exists
                             /\ ~AnchorAt(ledger, anchorId).disputed
                             /\ reasonLength > 0))]_vars

\* C15 amended: openDispute succeeds exactly when the ledger is not paused,
\* the anchor exists, is not disputed and the reason is non-empty, and then
\* sets disputed; a disputed flag is cleared only by a successful
\* resolveDispute, so two successful openDispute calls on an anchor have one
\* between them.
C15_OneDisputePerAnchor ==
    /\ [][lastCall'.op = "openDispute" =>
          \A sender \in Disputants, anchorId \in AnchorIdArgs,
             reasonLength \in ReasonLengths :
                OpenDispute(sender, anchorId, reasonLength)
                    => /\ (lastCall'.err = "")
                            <=> (/\ ~ledger.paused
                                 /\ AnchorAt(ledger, anchorId).exists
                                 /\ ~AnchorAt(ledger, anchorId).disputed
                                 /\ reasonLength > 0)
                       /\ lastCall'.err = "" => AnchorAt(ledger', anchorId).disputed]_vars
    /\ [][\A anchorId \in AnchorIdArgs :
            (AnchorAt(ledger, anchorId).disputed /\ ~AnchorAt(ledger', anchorId).disputed)
                => lastCall' = [op |-> "resolveDispute", err |-> ""]]_vars

\* a second openDispute on a disputed anchor was refused
C15_Witness ==
    /\ lastCall = [op |-> "openDispute", err |-> "EdgeCharge: Anchor already disputed"]
    /\ \E anchorId \in AnchorIdArgs : AnchorAt(ledger, anchorId).disputed

C17_FlagDecidesOutcome ==
    [][lastCall'.op = "resolveDispute" =>
       \A anchorId \in AnchorIdArgs, flag \in BOOLEAN :
            (ResolveDispute(Owner, anchorId, flag) /\ lastCall'.err = "")
                => AnchorAt(ledger', anchorId).disputed = ~flag]_vars

\* an anchor with these four inputs is stored on the ledger
Stored(L, a) ==
    \E id \in DOMAIN L.usageAnchors :
        /\ L.usageAnchors[id].exists
        /\ L.usageAnchors[id].provider = a[1]
        /\ L.usageAnchors[id].windowStart = a[2]
        /\ L.usageAnchors[id].windowEnd = a[3]
        /\ L.usageAnchors[id].merkleRoot = a[4]

\* C18: a valid submission by an authorized relayer is a duplicate exactly
\* when an anchor with the same provider, windowStart, windowEnd and
\* merkleRoot is stored, whoever submitted it, whenever, and with whatever
\* totalUsage: then it is rejected and the ledger (the stored totalUsage too)
\* is kept; otherwise one anchor is added with the submitted fields.
C18_AnchorIdentity ==
    [][lastCall'.op = "submitUsageAnchor" =>
       \A sender \in AnchorSenders, a \in AnchorInputs, totalUsage \in AnchorUsages :
            (/\ sender \in ledger.authorizedRelayers
             /\ SubmitUsageAnchor(sender, a[1], a[2], a[3], a[4], totalUsage))
                => IF Stored(ledger, a)
                   THEN /\ lastCall'.err = "EdgeCharge: Anchor already exists"
                        /\ ledger' = ledger
                   ELSE /\ lastCall'.err = ""
                        /\ Stored(ledger', a)
                        /\ Cardinality(DOMAIN ledger'.usageAnchors)
                             = Cardinality(DOMAIN ledger.usageAnchors) + 1
                        /\ \A id \in DOMAIN ledger.usageAnchors :
                              ledger'.usageAnchors[id] = ledger.usageAnchors[id]
                        /\ \E id \in DOMAIN ledger'.usageAnchors \ DOMAIN ledger.usageAnchors :
                              ledger'.usageAnchors[id].totalUsage = totalUsage]_vars

\* a duplicate was rejected, at a later time, while anchors that differ from
\* the base tuple in the root only and in the provider only are stored
C18_Witness ==
    /\ lastCall = [op |-> "submitUsageAnchor", err |-> "EdgeCharge: Anchor already exists"]
    /\ now > 0
    /\ AnchorSenders \subseteq ledger.authorizedRelayers
    /\ Stored(ledger, <<Provider, 1, 2, 1>>)
    /\ Stored(ledger, <<Provider, 1, 2, 2>>)
    /\ Stored(ledger, <<Enterprise, 1, 2, 1>>)

\* every invoice that exists stays, with its enterprise, provider, amount and
\* hash, and stays paid once it is paid
InvoicesAreKept ==
    \A id \in 1..MaxInvoices :
        InvoiceAt(ledger, id).exists
            => /\ InvoiceAt(ledger', id).exists
               /\ InvoiceAt(ledger', id).enterprise = InvoiceAt(ledger, id).enterprise
               /\ InvoiceAt(ledger', id).provider = InvoiceAt(ledger, id).provider
               /\ InvoiceAt(ledger', id).amount = InvoiceAt(ledger, id).amount
               /\ InvoiceAt(ledger', id).invoiceHash = InvoiceAt(ledger, id).invoiceHash
               /\ InvoiceAt(ledger, id).paid => InvoiceAt(ledger', id).paid

\* C19 as stated: a markInvoicePaid call by a relayer on an invoice that is
\* already paid fails with 'Invoice already paid' and moves no funds.
C19_SecondCallFailsAsPaid ==
    [][lastCall'.op = "markInvoicePaid" =>
       \A sender \in RelayerOrNot, invoiceId \in 1..MaxInvoices :
            (/\ sender \in ledger.authorizedRelayers
             /\ InvoiceAt(ledger, invoiceId).paid
             /\ MarkInvoicePaid(sender, invoiceId))
                => /\ lastCall'.err = "EdgeCharge: Invoice already paid"
                   /\ ledger' = ledger]_vars

\* C19 amended: an invoice is never deleted or changed except for paid going
\* from false to true; markInvoicePaid succeeds only on an unpaid invoice,
\* which it marks paid; on a paid invoice every call fails and moves nothing,
\* with 'Invoice already paid' when it comes from a relayer and the ledger is
\* not paused.
C19_InvoiceSettledOnce ==
    /\ [][ledger'.invoices # ledger.invoices => InvoicesAreKept]_vars
    /\ [][lastCall'.op = "markInvoicePaid" =>
          \A sender \in RelayerOrNot, invoiceId \in 1..MaxInvoices :
                MarkInvoicePaid(sender, invoiceId)
                    => /\ lastCall'.err = ""
                            => /\ ~InvoiceAt(ledger, invoiceId).paid
                               /\ InvoiceAt(ledger', invoiceId).paid
                       /\ InvoiceAt(ledger, invoiceId).paid
                            => /\ ledger' = ledger
                               /\ lastCall'.err =
                                    IF sender \notin ledger.authorizedRelayers
                                    THEN "EdgeCharge: Not authorized relayer"
                                    ELSE IF ledger.paused THEN "EnforcedPause"
                                    ELSE "EdgeCharge: Invoice already paid"]_vars

\* a second settlement of a paid invoice was refused while the enterprise
\* still has escrow
C19_Witness ==
    /\ lastCall = [op |-> "markInvoicePaid", err |-> "EdgeCharge: Invoice already paid"]
    /\ ledger.enterpriseEscrow[Enterprise] > 0
    /\ \E id \in DOMAIN ledger.invoices :
          /\ ledger.invoices[id].paid
          /\ ledger.invoices[id].amount <= ledger.enterpriseEscrow[Enterprise]

\* C20: nextInvoiceId starts at 1; the invoices that exist are exactly those
\* with ids 1..nextInvoiceId-1; a successful createInvoice stores an unpaid
\* invoice with the given fields under nextInvoiceId and advances it by one;
\* a rejected createInvoice changes nothing.
C20_InvoiceIdsAreSequential ==
    /\ [](/\ ledger.nextInvoiceId >= 1
          /\ DOMAIN ledger.invoices = 1..(ledger.nextInvoiceId - 1)
          /\ \A id \in 1..(MaxInvoices + 1) :
                InvoiceAt(ledger, id).exists <=> id < ledger.nextInvoiceId
          /\ lastCall.op = "constructor" => ledger.nextInvoiceId = 1)
    /\ [][lastCall'.op = "createInvoice" =>
          \A sender \in RelayerOrNot, a \in CreateInvoiceArgs :
                CreateInvoice(sender, a[1], a[2], a[3], a[4])
                    => IF lastCall'.err = ""
                       THEN /\ ledger'.nextInvoiceId = ledger.nextInvoiceId + 1
                            /\ InvoiceAt(ledger', ledger.nextInvoiceId) =
                                 [enterprise |-> a[1], provider |-> a[2],
                                  invoiceHash |-> a[4], amount |-> a[3],
                                  paid |-> FALSE, exists |-> TRUE]
                            /\ \A id \in DOMAIN ledger.invoices :
                                  InvoiceAt(ledger', id) = InvoiceAt(ledger, id)
                       ELSE ledger' = ledger]_vars

\* the last id of the model was handed out, after an earlier invoice was paid
C20_Witness ==
    /\ lastCall = [op |-> "createInvoice", err |-> ""]
    /\ ledger.nextInvoiceId = MaxInvoices + 1
    /\ ledger.invoices[1].paid
    /\ ~ledger.invoices[MaxInvoices].paid

\* C21: a markInvoicePaid that fails for insufficient escrow leaves the whole
\* ledger, and so the invoice's paid flag and every balance, as it was; and in
\* every reachable state where an unpaid invoice's amount is covered by its
\* enterprise's escrow and the ledger is not paused, markInvoicePaid by an
\* authorized relayer returns and sets the invoice paid.
C21_FailedSettlementIsRetryable ==
    /\ [][(lastCall'.op = "markInvoicePaid"
              /\ lastCall'.err = "EdgeCharge: insufficient escrow")
            => /\ ledger' = ledger
               /\ \E id \in DOMAIN ledger'.invoices :
                     /\ ~ledger'.invoices[id].paid
                     /\ ledger'.enterpriseEscrow[ledger'.invoices[id].enterprise]
                            < ledger'.invoices[id].amount]_vars
    /\ [](\A id \in DOMAIN ledger.invoices, sender \in ledger.authorizedRelayers :
            LET inv == ledger.invoices[id]
            IN  (/\ ~inv.paid
                 /\ ~ledger.paused
                 /\ ledger.enterpriseEscrow[inv.enterprise] >= inv.amount)
                => /\ markInvoicePaid(ledger, sender, id).err = ""
                   /\ markInvoicePaid(ledger, sender, id).st.invoices[id].paid)

\* the settlement of invoice 1 just failed for insufficient escrow, and the
\* deposit of the missing amount followed by a second markInvoicePaid settles it
C21_Witness ==
    /\ lastCall = [op |-> "markInvoicePaid", err |-> "EdgeCharge: insufficient escrow"]
    /\ InvoiceAt(ledger, 1).exists /\ ~InvoiceAt(ledger, 1).paid
    /\ LET inv == InvoiceAt(ledger, 1)
           missing == inv.amount - ledger.enterpriseEscrow[inv.enterprise]
           topUp == depositEscrow(ledger, inv.enterprise, missing)
           retry == markInvoicePaid(topUp.st, Relayer, 1)
       IN  /\ missing > 0
           /\ topUp.err = ""
           /\ topUp.st.enterpriseEscrow[inv.enterprise] = inv.amount
           /\ retry.err = ""
           /\ retry.st.invoices[1].paid
           /\ retry.st.providerBalances[inv.provider]
                 = ledger.providerBalances[inv.provider] + inv.amount

\* the reasons the input validation of submitUsageAnchor and openDispute reverts with
ValidationErrors ==
    {"EdgeCharge: Invalid provider", "EdgeCharge: Invalid time window",
     "EdgeCharge: Invalid usage amount", "EdgeCharge: Anchor already exists",
     "EdgeCharge: reason required"}

\* C22: in every reachable state, submitUsageAnchor with a zero provider, with
\* windowStart >= windowEnd, with totalUsage = 0 or for an anchor id that
\* exists, and openDispute with an empty reason, revert whoever calls them
\* and return the ledger as it was; and every step that ends with one of the
\* validation errors leaves the whole ledger unchanged.
C22_ValidationFailuresChangeNothing ==
    /\ [](\A sender \in RelayerOrNot, a \in SubmitAnchorArgs :
            LET R == submitUsageAnchor(ledger, sender, a[1], a[2][1], a[2][2], a[3], a[4])
            IN  (\/ a[1] = ZeroAddress
                 \/ a[2][1] >= a[2][2]
                 \/ a[4] = 0
                 \/ AnchorAt(ledger, AnchorIdOf(a[1], a[2][1], a[2][2], a[3])).exists)
                => R.err # "" /\ R.st = ledger)
    /\ [](\A sender \in Disputants, anchorId \in AnchorIdArgs :
            LET R == openDispute(ledger, sender, anchorId, 0)
            IN  R.err # "" /\ R.st = ledger)
    /\ [][lastCall'.err \in ValidationErrors => ledger' = ledger]_vars

\* an authorized relayer just re-submitted an existing anchor on an unpaused
\* ledger that holds an invoice and escrow, and an undisputed anchor is there
\* for a dispute without a reason
C22_Witness ==
    /\ lastCall = [op |-> "submitUsageAnchor", err |-> "EdgeCharge: Anchor already exists"]
    /\ ledger.nextInvoiceId > 1
    /\ ledger.enterpriseEscrow[Enterprise] > 0
    /\ \E anchorId \in AnchorIdArgs :
          /\ AnchorAt(ledger, anchorId).exists
          /\ ~AnchorAt(ledger, anchorId).disputed
          /\ openDispute(ledger, Enterprise, anchorId, 0).err = "EdgeCharge: reason required"

\* the fields of a stored anchor other than its disputed flag
AnchorBody(anchor) ==
    [provider |-> anchor.provider, windowStart |-> anchor.windowStart,
     windowEnd |-> anchor.windowEnd, merkleRoot |-> anchor.merkleRoot,
     totalUsage |-> anchor.totalUsage, exists |-> anchor.exists]

\* C23: every anchor that exists before a step exists after it with the same
\* provider, windowStart, windowEnd, merkleRoot and totalUsage; and in every
\* reachable state no submitUsageAnchor, whatever its sender and arguments
\* (a different totalUsage for an existing id included), changes those fields
\* of an existing anchor.
C23_AnchorsAreImmutable ==
    /\ [][\A id \in DOMAIN ledger.usageAnchors :
            ledger.usageAnchors[id].exists
                => /\ id \in DOMAIN ledger'.usageAnchors
                   /\ AnchorBody(ledger'.usageAnchors[id]) = AnchorBody(ledger.usageAnchors[id])]_vars
    /\ [](\A id \in DOMAIN ledger.usageAnchors :
            /\ ledger.usageAnchors[id].exists
            /\ id = AnchorIdOf(ledger.usageAnchors[id].provider,
                               ledger.usageAnchors[id].windowStart,
                               ledger.usageAnchors[id].windowEnd,
                               ledger.usageAnchors[id].merkleRoot)
            /\ \A sender \in RelayerOrNot, a \in SubmitAnchorArgs, totalUsage \in 0..6 :
                  LET R == submitUsageAnchor(ledger, sender, a[1], a[2][1], a[2][2],
                                             a[3], totalUsage)
                  IN  AnchorBody(R.st.usageAnchors[id]) = AnchorBody(ledger.usageAnchors[id]))

\* an anchor stored with totalUsage 5 is under dispute, an invoice was created
\* and the ledger was just paused: the anchor still carries what was stored
C23_Witness ==
    /\ lastCall = [op |-> "pause", err |-> ""]
    /\ \E id \in AnchorIdArgs :
          /\ AnchorAt(ledger, id).exists
          /\ AnchorAt(ledger, id).disputed
          /\ AnchorAt(ledger, id).totalUsage = 5
    /\ ledger.nextInvoiceId > 1

\* what the ledger owes: all escrow entries plus all provider balances
Owed(L) == SumOver(L.enterpriseEscrow, Callers) + SumOver(L.providerBalances, Callers)

\* C28: in every reachable state the contract holds at least as much of the
\* current billing token as it owes in escrow and provider balances, and every
\* provider with a positive balance can withdraw it when the ledger is not
\* paused.
C28_LedgerIsSolvent ==
    /\ IF ledger.billingToken = ZeroAddress THEN Owed(ledger) = 0
       ELSE ledger.tokenBalanceOf[ledger.billingToken][Contract] >= Owed(ledger)
    /\ \A p \in Callers :
          (ledger.providerBalances[p] > 0 /\ ~ledger.paused)
              => withdrawProvider(ledger, p, NoReentry).err = ""

(* ------------------- signing and encoding properties ------------------ *)

\* the presented record has the seven signed properties of the record that was signed
SameSignedFields ==
    \A i \in 1..Len(CanonicalFields) :
        /\ HasProperty(usageRecord, CanonicalFields[i])
        /\ Property(usageRecord, CanonicalFields[i])
              = Property(unsignedRecord, CanonicalFields[i])

\* C24: for every usage record and key, the record with the signature that
\* signUsageRecord made under the key verifies exactly when none of its seven
\* signed properties was changed after signing and its provider is the address
\* of the signing key; this holds as well for the record signed a second time.
C24_SignVerifyRoundTrip ==
    (cstep = "checked" /\ WellFormed(unsignedRecord))
        => (codecOut.isValid <=>
                (SameSignedFields /\ Property(usageRecord, "provider") = AddressOf(signerKey)))

\* a record written in another order than the schema's was signed by the key
\* of its provider and verified
C24_Witness ==
    /\ cstep = "checked"
    /\ codecOut.isValid
    /\ unsignedRecord[1][1] = "nonce"
    /\ signerKey = "key-b"
    /\ Property(usageRecord, "provider") = AddressOf("key-b")

\* C25: a record that has the seven semantic properties of the record that
\* was signed gets the same canonical encoding, whatever the order of its
\* properties and with the signature attached; and the leaf hash the relayer's
\* batcher computes for the ingested record is the leaf hash the provider-side
\* utilities compute for it, and for the record the provider signed.
C25_EncodingDependsOnFieldsOnly ==
    /\ (cstep # "input" /\ WellFormed(unsignedRecord) /\ SameSignedFields)
          => /\ createCanonicalJson(usageRecord) = createCanonicalJson(unsignedRecord)
             /\ createCanonicalJson(usageRecord)
                   = createCanonicalJson(ReverseProperties(usageRecord))
             /\ createCanonicalJson(usageRecord)
                   = createCanonicalJson(WithoutProperty(usageRecord, "providerSig"))
    /\ (cstep = "checked" /\ WellFormed(unsignedRecord))
          => /\ codecOut.status = 202
             /\ codecOut.relayerLeaf = codecOut.providerLeaf
             /\ SameSignedFields => codecOut.relayerLeaf = providerLeafHash(unsignedRecord)

\* a signed record whose properties were re-ordered after signing was hashed
\* on both sides
C25_Witness ==
    /\ cstep = "checked"
    /\ codecOut.status = 202
    /\ usageRecord[1][1] = "providerSig"
    /\ unsignedRecord[1][1] = "provider"
    /\ codecOut.relayerLeaf = providerLeafHash(unsignedRecord)

\* C26: for an object that lacks a required property or holds a number
\* outside the fixed-width integers, the canonical codec throws and yields no
\* encoding: nothing is signed, and the relayer computes no leaf hash for it.
C26_MalformedRecordIsRejected ==
    (cstep # "input" /\ ~WellFormed(unsignedRecord))
        => /\ createCanonicalJson(unsignedRecord).threw
           /\ ~HasProperty(usageRecord, "providerSig")
           /\ cstep = "checked" => codecOut.relayerLeaf = <<>>

(* ------------------------- relayer properties ------------------------- *)

\* a tick makes at most one batch, and none once the clock has passed MaxTime
MaxBatches == (MaxTime \div IntervalSeconds) + 1

BatchIds == 1..Len(batches)
Drained(u) == \E b \in BatchIds : u \in batches[b].uids
AnchoredUids == UNION {batches[b].uids : b \in {c \in BatchIds : batches[c].applied}}

\* C7: every record accepted into the pending set whose window has closed
\* (windowEnd at or before the current time) is eventually drained into a
\* batch that is handed to an anchor submission, the batcher ticking for ever.
C7_ClosedRecordIsEventuallyDrained ==
    \A u \in 1..MaxIngested :
        (u <= Len(accepted) /\ accepted[u].windowEnd <= now) ~> Drained(u)

Failed(b) == b <= Len(batches) /\ batches[b].stage = "failed"
Resubmitted(b) ==
    \E c \in BatchIds : c > b /\ batches[c].payload = batches[b].payload

\* C8: a batch whose submission failed (transport error, timeout, ledger
\* rejection) is submitted again, with the same provider, window, root and
\* total, in a later attempt.
C8_FailedSubmissionIsRetried ==
    \A b \in 1..MaxBatches : Failed(b) ~> Resubmitted(b)

\* C9: each accepted record is in at most one drained batch, a drained record
\* is no longer pending, and the totalUsage of a batch is the sum of the units
\* of exactly its own records, whatever the interleaving of POST /leaves with
\* the batcher's ticks and its awaited submissions.
C9_NoRecordIsDoubleCounted ==
    /\ \A b, c \in BatchIds : b # c => batches[b].uids \cap batches[c].uids = {}
    /\ \A i \in 1..Len(pendingLeaves) : ~Drained(pendingLeaves[i].uid)
    /\ \A b \in BatchIds :
          batches[b].payload.totalUsage
              = SumOver([u \in batches[b].uids |-> accepted[u].unitsConsumed],
                        batches[b].uids)

\* a second tick has drained a batch while the first batch is still awaiting
\* its receipt, and both records were ingested
C9_Witness ==
    /\ Len(batches) = 2
    /\ batches[1].stage = "mined"
    /\ batches[2].stage = "sent"
    /\ Len(accepted) = 2

\* C10: a (provider, nonce) pair contributes its units to anchored totalUsage
\* at most once: of the accepted records that share a pair, at most one is in
\* a batch applied on the ledger.
C10_NonceContributesOnce ==
    \A u, v \in AnchoredUids :
        (accepted[u].provider = accepted[v].provider /\ accepted[u].nonce = accepted[v].nonce)
            => u = v

\* C29: for every batch whose anchor was applied on the ledger, the provider
\* of the payload is the provider of every record of the batch, totalUsage is
\* the sum of their units, windowStart and windowEnd are the least windowStart
\* and the greatest windowEnd among them, and merkleRoot is the root over
\* their leaf hashes.
C29_AnchorIsAttributedToItsProvider ==
    \A b \in {c \in 1..Len(batches) : batches[c].applied} :
        LET uids == batches[b].uids
            pl == batches[b].payload
        IN  /\ \A u \in uids : accepted[u].provider = pl.provider
            /\ pl.totalUsage = SumOver([u \in uids |-> accepted[u].unitsConsumed], uids)
            /\ pl.windowStart = MinOf({accepted[u].windowStart : u \in uids})
            /\ pl.windowEnd = MaxOf({accepted[u].windowEnd : u \in uids})
            /\ \E q \in [1..Cardinality(uids) -> uids] :
                  /\ \A i, j \in 1..Cardinality(uids) : i # j => q[i] # q[j]
                  /\ pl.merkleRoot =
                        buildMerkleRoot([i \in 1..Cardinality(uids) |->
                                            hashLeafCanonicalJson(accepted[q[i]])])

\* the anchor of an audit entry as the ledger stores it
LedgerAnchorOf(entry) ==
    AnchorAt(ledger, AnchorIdOf(entry.provider, entry.windowStart, entry.windowEnd,
                                entry.merkleRoot))

\* C30: every entry of the relayer's audit list is an anchor that exists on
\* the ledger with the same provider, window, root and totalUsage, and a
\* batch whose submission was not applied on the ledger is never recorded.
C30_AuditListMatchesLedger ==
    /\ \A i \in 1..Len(submittedAnchors) :
          LET entry == submittedAnchors[i]
              anchor == LedgerAnchorOf(entry)
          IN  /\ anchor.exists
              /\ anchor.provider = entry.provider
              /\ anchor.windowStart = entry.windowStart
              /\ anchor.windowEnd = entry.windowEnd
              /\ anchor.merkleRoot = entry.merkleRoot
              /\ anchor.totalUsage = entry.totalUsage
    /\ \A b \in 1..Len(batches) : batches[b].stage = "recorded" => batches[b].applied

====
